---------------------------- MODULE Spec2Model ----------------------------
(***************************************************************************)
(* A model of pyhrv's frequency-domain pipeline: the array standardizer    *)
(* (pyhrv/utils.py), the frequency-axis builder (pyhrv/rri/frequency.py)   *)
(* and the orchestrator hrv_freq (pyhrv/hrv.py), statement by statement.   *)
(*                                                                         *)
(* Python floats are modelled as exact rationals <<n, d>> in lowest terms  *)
(* with d > 0; rounding error is outside the model.  A numpy array is a    *)
(* record [shape, data]: its shape tuple and its elements in C order.      *)
(* A Python call either returns or raises: `raised' holds the exception's  *)
(* class name, or NoExc when the call returned.                            *)
(***************************************************************************)
EXTENDS Integers, Sequences, FiniteSets, TLC

VARIABLES
    pc,                 \* "call" before a call, "done" after it; in hrv_freq
                        \* the name of the next statement
    fn,                 \* the function being called
    a,                  \* np_squeeze_check: argument a
    rri,                \* standardize_rri_trr, hrv_freq: argument rri
    trr,                \* standardize_rri_trr, hrv_freq: argument trr, <<>>
                        \* for None
    ret_a,              \* np_squeeze_check: returned array
    ret_rri,            \* standardize_rri_trr: returned rri
    ret_trr,            \* standardize_rri_trr: returned trr
    t_win,              \* build_uniform_freq_axis: argument t_win;
                        \* hrv_freq: local t_win
    f_min,              \* build_uniform_freq_axis: argument f_min
    f_max,              \* build_uniform_freq_axis: argument f_max
    resample_factor,    \* build_uniform_freq_axis: argument resample_factor
    oversample_factor,  \* build_uniform_freq_axis: argument oversample_factor
    f_axis,             \* build_uniform_freq_axis: returned frequency axis
    fs_uni,             \* build_uniform_freq_axis: returned resampling rate
    arg_methods,        \* hrv_freq: argument methods, a set of names
    arg_norm_method,    \* hrv_freq: argument norm_method
    methods,            \* hrv_freq: local methods after line 102
    norm_method,        \* hrv_freq: local norm_method after line 109
    failed_at,          \* hrv_freq: the statement that raised, "" if none
    win_func,           \* hrv_freq: argument win_func, a callable's name or
                        \* the string of a qualified name
    vlf_band,           \* hrv_freq: argument vlf_band
    lf_band,            \* hrv_freq: argument lf_band
    hf_band,            \* hrv_freq: argument hf_band
    arg_window_minutes, \* hrv_freq: argument window_minutes, <<>> for None
    window_minutes,     \* hrv_freq: local window_minutes after line 128
    num_windows,        \* hrv_freq: local num_windows
    trr_uni,            \* hrv_freq: the uniform time axis of line 149
    n_win_uni,          \* hrv_freq: samples per window, line 150
    num_windows_uni,    \* hrv_freq: local num_windows_uni
    warned,             \* hrv_freq: the Nyquist warning of line 155 was logged
    calls,              \* hrv_freq: the estimator calls made so far, each
                        \* with the arguments the claims speak of
    pxx,                \* hrv_freq: the keys of the dict pxx
    arg_t_win,          \* pxx_lomb: argument t_win, <<>> for None
    arg_win_func,       \* pxx_lomb: argument win_func, <<>> when omitted
    lomb_i,             \* pxx_lomb: the counter i of enumerate, line 49
    win_log,            \* pxx_lomb: the windows processed so far, in order
    acc,                \* pxx_lomb: the accumulator pxx, as the terms added
    ret_pxx,            \* pxx_lomb: the returned periodogram, <<>> if none
    f_welch,            \* hrv_freq: the bin frequencies of the Welch estimate
    pxx_welch,          \* hrv_freq: the Welch estimate, one value per bin
    pxx_welch_kept,     \* hrv_freq: the entry pxx['welch'], <<>> if none
    sec,                \* sec_to_time: argument sec
    ret_time,           \* sec_to_time: the returned fields, <<>> if none
    ret_str,            \* sec_to_time: str() of the returned value
    time,               \* wfdb_time_to_samples: argument time, a string
    arg_fs,             \* wfdb_time_to_samples: argument fs
    ret_samples,        \* wfdb_time_to_samples: <<returned value>>, <<>> if
                        \* none
    common_prefix,      \* get_override: argument common_prefix
    param_overrides,    \* get_override: the keyword arguments, in order
    pyhrv_conf,         \* conf: the configured value of each parameter
    retvals,            \* get_override: the list retvals
    ecg_args,           \* ecgpuwave_wrapper: whether record is a record, and
                        \* the optional arguments, <<>> for None
    ecgpuwave_command,  \* ecgpuwave_wrapper: the command line built
    tool,               \* ecgpuwave_wrapper: how the run of the tool ended
    ecgpuwave_result,   \* ecgpuwave_wrapper: <<the completed process>>, <<>>
                        \* while the local is unbound
    fort_files,         \* ecgpuwave_wrapper: the fort.* files in rec_dir
    warnings,           \* ecgpuwave_wrapper: the number of warnings issued
    ret_ok,             \* ecgpuwave_wrapper: <<returned value>>, <<>> if none
    pending,            \* a caller of hrv_freq: the calls it has yet to make
    returned,           \* a caller of hrv_freq: the calls made, with results
    raised              \* the exception the call raised, NoExc if it returned

vars == <<pc, fn, a, rri, trr, ret_a, ret_rri, ret_trr,
          t_win, f_min, f_max, resample_factor, oversample_factor,
          f_axis, fs_uni, arg_methods, arg_norm_method, methods, norm_method,
          failed_at, win_func, vlf_band, lf_band, hf_band,
          arg_window_minutes, window_minutes, num_windows, trr_uni,
          n_win_uni, num_windows_uni, warned, calls, pxx,
          arg_t_win, arg_win_func, lomb_i, win_log, acc, ret_pxx,
          f_welch, pxx_welch, pxx_welch_kept, sec, ret_time, ret_str,
          time, arg_fs, ret_samples,
          common_prefix, param_overrides, pyhrv_conf, retvals,
          ecg_args, ecgpuwave_command, tool, ecgpuwave_result, fort_files,
          warnings, ret_ok, pending, returned, raised>>

(***************************************************************************)
(* Bounds of the model.                                                    *)
(***************************************************************************)
MaxNum == 3     \* numerators of the rational inputs are 0..MaxNum
MaxDen == 2     \* denominators of the rational inputs are 1..MaxDen
MaxOsfNum == 4  \* numerators of the oversample factors are 1..MaxOsfNum
MaxOsfDen == 3  \* denominators of the oversample factors are 1..MaxOsfDen
MaxDims == 3    \* input arrays have 0..MaxDims dimensions
MaxLen == 3     \* each dimension is 0..MaxLen long, at most MaxLen elements
MaxVal == 2     \* array elements are 1..MaxVal
SubSecond == 4  \* a short recording is sampled every 1/SubSecond s

NoExc == "none"

(***************************************************************************)
(* Exact rational arithmetic standing for Python's float arithmetic.       *)
(***************************************************************************)
Abs(x) == IF x < 0 THEN -x ELSE x

RECURSIVE Gcd(_, _)
Gcd(p, q) == IF q = 0 THEN p ELSE Gcd(q, p % q)

Rat(n, d) ==
    LET s == IF d < 0 THEN -1 ELSE 1
        g == Gcd(Abs(n), Abs(d))
    IN  <<(s * n) \div g, (s * d) \div g>>

Zero == Rat(0, 1)
One == Rat(1, 1)
Two == Rat(2, 1)
FromInt(k) == Rat(k, 1)

\* Sums and comparisons go through the least common denominator and
\* products are reduced crosswise, which keeps the intermediate integers small.
RAdd(p, q) ==
    LET g == Gcd(p[2], q[2])
    IN  Rat(p[1] * (q[2] \div g) + q[1] * (p[2] \div g), (p[2] \div g) * q[2])
RSub(p, q) ==
    LET g == Gcd(p[2], q[2])
    IN  Rat(p[1] * (q[2] \div g) - q[1] * (p[2] \div g), (p[2] \div g) * q[2])
RMul(p, q) ==
    LET g == IF p[1] = 0 THEN 1 ELSE Gcd(Abs(p[1]), q[2])
        h == IF q[1] = 0 THEN 1 ELSE Gcd(Abs(q[1]), p[2])
    IN  Rat((p[1] \div g) * (q[1] \div h), (p[2] \div h) * (q[2] \div g))
RDiv(p, q) ==                                     \* q # Zero
    RMul(p, IF q[1] < 0 THEN <<-q[2], -q[1]>> ELSE <<q[2], q[1]>>)
RLt(p, q) ==
    LET g == Gcd(p[2], q[2])
    IN  p[1] * (q[2] \div g) < q[1] * (p[2] \div g)
RLe(p, q) ==
    LET g == Gcd(p[2], q[2])
    IN  p[1] * (q[2] \div g) <= q[1] * (p[2] \div g)
RMax(p, q) == IF RLt(p, q) THEN q ELSE p          \* Python's max(p, q)
RFloor(p) == p[1] \div p[2]                       \* math.floor
RCeil(p) == -((-p[1]) \div p[2])                  \* math.ceil

Rats == {Rat(n, d) : n \in 0..MaxNum, d \in 1..MaxDen}

(***************************************************************************)
(* Python strings are tuples of characters, so that str.lower() is a       *)
(* conversion of each character and not a table of whole names.            *)
(***************************************************************************)
UpperCase == <<"A", "B", "C", "D", "E", "F", "G", "H", "I", "J", "K", "L", "M",
               "N", "O", "P", "Q", "R", "S", "T", "U", "V", "W", "X", "Y", "Z">>
LowerCase == <<"a", "b", "c", "d", "e", "f", "g", "h", "i", "j", "k", "l", "m",
               "n", "o", "p", "q", "r", "s", "t", "u", "v", "w", "x", "y", "z">>

lower_char(c) ==
    IF \E i \in DOMAIN UpperCase : UpperCase[i] = c
    THEN LowerCase[CHOOSE i \in DOMAIN UpperCase : UpperCase[i] = c]
    ELSE c

\* str.lower()
lower(str) == [i \in DOMAIN str |-> lower_char(str[i])]

\* the names hrv_freq is called with
MethodNames ==
    { <<"l", "o", "m", "b">>, <<"L", "O", "M", "B">>, <<"L", "o", "m", "b">>,
      <<"w", "e", "l", "c", "h">>, <<"W", "e", "l", "c", "h">>,
      <<"a", "r">>, <<"A", "R">>, <<"f", "f", "t">> }

NormMethodNames ==
    { <<"t", "o", "t", "a", "l">>, <<"T", "o", "t", "a", "l">>,
      <<"l", "f", "_", "h", "f">>, <<"L", "F", "_", "H", "F">>,
      <<"l", "f", "_", "a", "f">>, <<"L", "F", "_", "A", "F">>,
      <<"n", "o", "n", "e">> }

(***************************************************************************)
(* hrv_freq: the validation of methods and of norm_method.                 *)
(***************************************************************************)
\* supported_methods = {'lomb', 'ar', 'welch'}
supported_methods ==
    { <<"l", "o", "m", "b">>, <<"a", "r">>, <<"w", "e", "l", "c", "h">> }

\* methods = {m.lower() for m in methods}
lowered_methods(ms) == {lower(m) : m \in ms}

\* mutant: `any' where the code has `all'
methods_rejected_unless_any(ms) ==
    ms = {} \/ ~ \E m \in ms : m \in supported_methods

\* the guard: not methods or not all(m in supported_methods for m in methods)
methods_rejected(ms) ==
    ms = {} \/ ~ \A m \in ms : m \in supported_methods

\* supported_norm_methods = {'total', 'lf_af'}
supported_norm_methods ==
    { <<"t", "o", "t", "a", "l">>, <<"l", "f", "_", "a", "f">> }

\* the guard: norm_method not in supported_norm_methods
norm_method_rejected(nm) == nm \notin supported_norm_methods

(***************************************************************************)
(* numpy arrays: the shape tuple and the elements in C order.  A dimension *)
(* of length 0 makes the array empty; a 0-dimensional array (shape ())     *)
(* holds one element.  The elements are floats that are whole multiples of *)
(* 1/unit: data holds the multiples, so that the element j is              *)
(* data[j]/unit (unit is 1 for an array of whole numbers).                 *)
(***************************************************************************)
RECURSIVE Prod(_)
Prod(sh) == IF sh = <<>> THEN 1 ELSE Head(sh) * Prod(Tail(sh))

ArrayOf(sh, d, u) == [shape |-> sh, data |-> d, unit |-> u]
Array(sh, d) == ArrayOf(sh, d, 1)
NoArray == Array(<<0>>, <<>>)      \* placeholder while nothing is returned
ndim(x) == Len(x.shape)
len(x) == x.shape[1]               \* Python's len() of an array, ndim >= 1

\* mutant: the array is not squeezed at all
squeeze_forgotten(x) == x

\* a.squeeze(): every dimension of length 1 is removed, the elements stay
squeeze(x) == ArrayOf(SelectSeq(x.shape, LAMBDA d : d # 1), x.data, x.unit)

\* the guard of `raise ValueError("The given array is not 1d")'
not_1d(x) == ndim(x) # 1

\* np_squeeze_check(a): what it raises, or the array it returns
np_squeeze_check(x) ==
    LET sq == squeeze(x)
    IN  IF not_1d(sq) THEN [raised |-> "ValueError", a |-> NoArray]
        ELSE [raised |-> NoExc, a |-> sq]

\* np.cumsum(x) of a 1-d array: the running sums
RECURSIVE SumTo(_, _)
SumTo(d, i) == IF i = 0 THEN 0 ELSE SumTo(d, i - 1) + d[i]
cumsum(x) ==
    ArrayOf(x.shape, [i \in 1..Len(x.data) |-> SumTo(x.data, i)], x.unit)

\* x[:-1] of a 1-d array: all but the last element, empty if x is empty
all_but_last(x) ==
    LET n == IF Len(x.data) = 0 THEN 0 ELSE Len(x.data) - 1
    IN  ArrayOf(<<n>>, [i \in 1..n |-> x.data[i]], x.unit)

\* np.r_[0.0, x] for a 1-d array x: the scalar, then the elements of x
r_zero_then(x) == ArrayOf(<<1 + Len(x.data)>>, <<0>> \o x.data, x.unit)

\* trr = np.r_[0.0, np.cumsum(rri)[:-1]]
derived_trr(x) == r_zero_then(all_but_last(cumsum(x)))

\* the guard of `raise ValueError("Shape mismatch between rri and trr")'
shape_mismatch(t, r) == len(t) # len(r)

StdResult(exc, r, t) == [raised |-> exc, rri |-> r, trr |-> t]
StdRaise(exc) == StdResult(exc, NoArray, NoArray)

\* standardize_rri_trr(rri, trr): trr0 is <<>> for None, else <<array>>
standardize_rri_trr(rri0, trr0) ==
    LET r == np_squeeze_check(rri0)
    IN  IF r.raised # NoExc THEN StdRaise(r.raised)
        ELSE IF trr0 = <<>>
             THEN StdResult(NoExc, r.a, derived_trr(r.a))
             ELSE LET t == np_squeeze_check(trr0[1])
                  IN  IF t.raised # NoExc THEN StdRaise(t.raised)
                      ELSE IF shape_mismatch(t.a, r.a)
                           THEN StdRaise("ValueError")
                           ELSE StdResult(NoExc, r.a, t.a)

\* the arrays the calls are made with
RECURSIVE Shapes(_)
Shapes(k) ==
    IF k = 0 THEN {<<>>}
    ELSE {<<d>> \o sh : d \in 0..MaxLen, sh \in Shapes(k - 1)}

InputShapes ==
    {sh \in UNION {Shapes(k) : k \in 0..MaxDims} : Prod(sh) <= MaxLen}

Arrays ==
    UNION {{Array(sh, d) : d \in [1..Prod(sh) -> 1..MaxVal]} : sh \in InputShapes}

\* time axes: strictly increasing timestamps t0, t0 + 1, ... in any shape
TimeAxes ==
    UNION {{Array(sh, [i \in 1..Prod(sh) |-> t0 + i - 1]) : t0 \in 0..MaxVal} :
           sh \in InputShapes}

(***************************************************************************)
(* numpy.arange(start, stop, step), which np.r_[start:stop:step] evaluates *)
(* to: the values start + i*step for 0 <= i < ceil((stop - start) / step), *)
(* a half-open range that never holds stop itself.                         *)
(***************************************************************************)
\* mutant: a closed range, which holds stop when stop - start is a multiple
\* of step
arange_len_closed(start, stop, step) ==
    LET length == RFloor(RDiv(RSub(stop, start), step)) + 1
    IN  IF length < 0 THEN 0 ELSE length

arange_len(start, stop, step) ==
    LET length == RCeil(RDiv(RSub(stop, start), step))
    IN  IF length < 0 THEN 0 ELSE length

arange(start, stop, step) ==
    [i \in 1..arange_len(start, stop, step) |->
        RAdd(start, RMul(FromInt(i - 1), step))]

(***************************************************************************)
(* build_uniform_freq_axis, statement by statement.                        *)
(***************************************************************************)
\* mutant: the window is left as the caller gave it
t_win_not_raised(tw, fmin) == tw

\* t_win = max(t_win, 1 / f_min); f_min # 0
t_win_raised(tw, fmin) == RMax(tw, RDiv(One, fmin))

\* mutant: a resample_factor of 1 is let through
resample_factor_below_one(R) == RLt(R, One)

\* the guard of `raise ValueError("resample_factor must be at least 2")'
resample_factor_too_small(R) == RLt(R, Two)

\* fs_uni = resample_factor * f_max
fs_uni_of(R, fmax) == RMul(R, fmax)

\* n_win_uni = math.floor(t_win / (1 / fs_uni)); fs # 0
n_win_uni_of(tw, fs) == RFloor(RDiv(tw, RDiv(One, fs)))

\* ts = t_win / (n_win_uni - 1); n # 1
ts_of(tw, n) == RDiv(tw, FromInt(n - 1))

\* mutant: the resolution 1 / ((n - 1) * ts) of a window of n - 1 intervals
f_res_base_n_minus_1(n, ts) == RDiv(One, RMul(FromInt(n - 1), ts))

\* f_res = 1 / (n_win_uni * ts); n * ts # 0
f_res_base(n, ts) == RDiv(One, RMul(FromInt(n), ts))

\* mutant: the step is multiplied by the oversample factor
f_res_multiplied(fres, O) == RMul(fres, O)

\* f_res /= oversample_factor; O # 0
f_res_oversampled(fres, O) == RDiv(fres, O)

\* f_axis = np.r_[f_res:f_max:f_res]
f_axis_of(fres, fmax) == arange(fres, fmax, fres)

AxisResult(exc, axis, fs) == [raised |-> exc, f_axis |-> axis, fs_uni |-> fs]
AxisRaise(exc) == AxisResult(exc, <<>>, Zero)

\* The whole function: what it raises, or the (f_axis, fs_uni) it returns.
\* A division by a Python number equal to zero raises ZeroDivisionError.
build_uniform_freq_axis(tw0, fmin, fmax, R, O) ==
    IF fmin = Zero THEN AxisRaise("ZeroDivisionError")
    ELSE LET tw == t_win_raised(tw0, fmin) IN
    IF resample_factor_too_small(R) THEN AxisRaise("ValueError")
    ELSE LET fs == fs_uni_of(R, fmax) IN
    IF fs = Zero THEN AxisRaise("ZeroDivisionError")
    ELSE LET n == n_win_uni_of(tw, fs) IN
    IF n - 1 = 0 THEN AxisRaise("ZeroDivisionError")
    ELSE LET ts == ts_of(tw, n) IN
    IF RMul(FromInt(n), ts) = Zero THEN AxisRaise("ZeroDivisionError")
    ELSE LET fres0 == f_res_base(n, ts) IN
    IF O = Zero THEN AxisRaise("ZeroDivisionError")
    ELSE LET fres == f_res_oversampled(fres0, O) IN
    AxisResult(NoExc, f_axis_of(fres, fmax), fs)

(***************************************************************************)
(* SpecAxis: one call of build_uniform_freq_axis on inputs drawn by Init.  *)
(***************************************************************************)
\* oversample_factor is a float: factors O >= 1, not only integers
OversampleFactors ==
    {r \in {Rat(n, d) : n \in 1..MaxOsfNum, d \in 1..MaxOsfDen} : RLe(One, r)}

\* the variables of the other functions, which a call leaves alone
IdleLomb ==
    /\ arg_t_win = <<>>
    /\ arg_win_func = <<>>
    /\ lomb_i = 0
    /\ win_log = <<>>
    /\ acc = <<>>
    /\ ret_pxx = <<>>

lomb_vars == <<arg_t_win, arg_win_func, lomb_i, win_log, acc, ret_pxx>>

IdleWelch ==
    /\ f_welch = <<>>
    /\ pxx_welch = <<>>
    /\ pxx_welch_kept = <<>>

welch_vars == <<f_welch, pxx_welch, pxx_welch_kept>>

IdleTime ==
    /\ sec = Zero
    /\ ret_time = <<>>
    /\ ret_str = <<>>

time_vars == <<sec, ret_time, ret_str>>

IdleSamples ==
    /\ time = <<>>
    /\ arg_fs = Zero
    /\ ret_samples = <<>>

samples_vars == <<time, arg_fs, ret_samples>>

IdleConf ==
    /\ common_prefix = ""
    /\ param_overrides = <<>>
    /\ pyhrv_conf = <<>>
    /\ retvals = <<>>

conf_vars == <<common_prefix, param_overrides, pyhrv_conf, retvals>>

NotRun == [outcome |-> "", stderr |-> ""]

IdleEcg ==
    /\ ecg_args = <<>>
    /\ ecgpuwave_command = <<>>
    /\ tool = NotRun
    /\ ecgpuwave_result = <<>>
    /\ fort_files = {}
    /\ warnings = 0
    /\ ret_ok = <<>>

ecg_vars == <<ecg_args, ecgpuwave_command, tool, ecgpuwave_result,
              fort_files, warnings, ret_ok>>

IdleCaller ==
    /\ pending = <<>>
    /\ returned = <<>>

caller_vars == <<pending, returned>>

IdleUtils ==
    /\ a = NoArray
    /\ rri = NoArray
    /\ trr = <<>>
    /\ ret_a = NoArray
    /\ ret_rri = NoArray
    /\ ret_trr = NoArray

utils_vars == <<a, rri, trr, ret_a, ret_rri, ret_trr>>

IdleHrv ==
    /\ arg_methods = {}
    /\ arg_norm_method = <<>>
    /\ methods = {}
    /\ norm_method = <<>>
    /\ failed_at = ""
    /\ win_func = <<>>
    /\ vlf_band = <<>>
    /\ lf_band = <<>>
    /\ hf_band = <<>>
    /\ arg_window_minutes = <<>>
    /\ window_minutes = <<>>
    /\ num_windows = 0
    /\ trr_uni = <<>>
    /\ n_win_uni = 0
    /\ num_windows_uni = 0
    /\ warned = FALSE
    /\ calls = <<>>
    /\ pxx = {}

hrv_vars == <<arg_methods, arg_norm_method, methods, norm_method, failed_at,
              win_func, vlf_band, lf_band, hf_band, arg_window_minutes,
              window_minutes, num_windows, trr_uni, n_win_uni,
              num_windows_uni, warned, calls, pxx>>

InitAxis ==
    /\ pc = "call"
    /\ fn = "build_uniform_freq_axis"
    /\ IdleUtils
    /\ IdleHrv
    /\ t_win \in Rats
    /\ f_min \in Rats
    /\ f_max \in Rats
    /\ resample_factor \in Rats
    /\ oversample_factor \in OversampleFactors
    /\ f_axis = <<>>
    /\ fs_uni = Zero
    /\ raised = NoExc
    /\ IdleLomb
    /\ IdleWelch
    /\ IdleTime
    /\ IdleSamples
    /\ IdleConf
    /\ IdleEcg
    /\ IdleCaller

CallBuildUniformFreqAxis ==
    /\ pc = "call"
    /\ fn = "build_uniform_freq_axis"
    /\ LET r == build_uniform_freq_axis(t_win, f_min, f_max,
                                        resample_factor, oversample_factor)
       IN  /\ raised' = r.raised
           /\ f_axis' = r.f_axis
           /\ fs_uni' = r.fs_uni
    /\ pc' = "done"
    /\ UNCHANGED <<fn, t_win, f_min, f_max, resample_factor, oversample_factor>>
    /\ UNCHANGED utils_vars
    /\ UNCHANGED hrv_vars
    /\ UNCHANGED lomb_vars
    /\ UNCHANGED welch_vars
    /\ UNCHANGED time_vars
    /\ UNCHANGED samples_vars
    /\ UNCHANGED conf_vars
    /\ UNCHANGED ecg_vars
    /\ UNCHANGED caller_vars

NextAxis == CallBuildUniformFreqAxis

SpecAxis == InitAxis /\ [][NextAxis]_vars

(***************************************************************************)
(* SpecUtils: one call of np_squeeze_check or of standardize_rri_trr on    *)
(* arrays drawn by Init.                                                   *)
(***************************************************************************)
IdleAxis ==
    /\ t_win = Zero
    /\ f_min = Zero
    /\ f_max = Zero
    /\ resample_factor = Zero
    /\ oversample_factor = Zero
    /\ f_axis = <<>>
    /\ fs_uni = Zero

axis_vars == <<t_win, f_min, f_max, resample_factor, oversample_factor,
               f_axis, fs_uni>>

InitUtils ==
    /\ pc = "call"
    /\ \/ /\ fn = "np_squeeze_check"
          /\ a \in Arrays
          /\ rri = NoArray
          /\ trr = <<>>
       \/ /\ fn = "standardize_rri_trr"
          /\ a = NoArray
          /\ rri \in Arrays
          /\ trr \in {<<>>} \cup {<<x>> : x \in TimeAxes}
    /\ ret_a = NoArray
    /\ ret_rri = NoArray
    /\ ret_trr = NoArray
    /\ raised = NoExc
    /\ IdleAxis
    /\ IdleHrv
    /\ IdleLomb
    /\ IdleWelch
    /\ IdleTime
    /\ IdleSamples
    /\ IdleConf
    /\ IdleEcg
    /\ IdleCaller

CallNpSqueezeCheck ==
    /\ pc = "call"
    /\ fn = "np_squeeze_check"
    /\ LET r == np_squeeze_check(a)
       IN  /\ raised' = r.raised
           /\ ret_a' = r.a
    /\ pc' = "done"
    /\ UNCHANGED <<fn, a, rri, trr, ret_rri, ret_trr>>
    /\ UNCHANGED axis_vars
    /\ UNCHANGED hrv_vars
    /\ UNCHANGED lomb_vars
    /\ UNCHANGED welch_vars
    /\ UNCHANGED time_vars
    /\ UNCHANGED samples_vars
    /\ UNCHANGED conf_vars
    /\ UNCHANGED ecg_vars
    /\ UNCHANGED caller_vars

CallStandardizeRriTrr ==
    /\ pc = "call"
    /\ fn = "standardize_rri_trr"
    /\ LET r == standardize_rri_trr(rri, trr)
       IN  /\ raised' = r.raised
           /\ ret_rri' = r.rri
           /\ ret_trr' = r.trr
    /\ pc' = "done"
    /\ UNCHANGED <<fn, a, rri, trr, ret_a>>
    /\ UNCHANGED axis_vars
    /\ UNCHANGED hrv_vars
    /\ UNCHANGED lomb_vars
    /\ UNCHANGED welch_vars
    /\ UNCHANGED time_vars
    /\ UNCHANGED samples_vars
    /\ UNCHANGED conf_vars
    /\ UNCHANGED ecg_vars
    /\ UNCHANGED caller_vars

NextUtils == CallNpSqueezeCheck \/ CallStandardizeRriTrr

SpecUtils == InitUtils /\ [][NextUtils]_vars

(***************************************************************************)
(* SpecHrv: the two validations that open hrv_freq, on a methods set and a *)
(* norm_method drawn by Init from every spelling of the names.  pc names   *)
(* the next statement; a raise ends the call with pc = "done" and          *)
(* failed_at naming the statement that raised.                             *)
(***************************************************************************)
hrv_locals == <<win_func, vlf_band, lf_band, hf_band, arg_window_minutes,
                window_minutes, num_windows, trr_uni, n_win_uni,
                num_windows_uni, warned, calls, pxx>>

IdleHrvLocals ==
    /\ win_func = <<>>
    /\ vlf_band = <<>>
    /\ lf_band = <<>>
    /\ hf_band = <<>>
    /\ arg_window_minutes = <<>>
    /\ window_minutes = <<>>
    /\ num_windows = 0
    /\ trr_uni = <<>>
    /\ n_win_uni = 0
    /\ num_windows_uni = 0
    /\ warned = FALSE
    /\ calls = <<>>
    /\ pxx = {}

InitHrv ==
    /\ pc = "validate_methods"
    /\ fn = "hrv_freq"
    /\ arg_methods \in SUBSET MethodNames
    /\ arg_norm_method \in NormMethodNames
    /\ methods = {}
    /\ norm_method = <<>>
    /\ failed_at = ""
    /\ raised = NoExc
    /\ IdleHrvLocals
    /\ IdleUtils
    /\ IdleAxis
    /\ IdleLomb
    /\ IdleWelch
    /\ IdleTime
    /\ IdleSamples
    /\ IdleConf
    /\ IdleEcg
    /\ IdleCaller

\* lines 100-105: # Validate methods
ValidateMethods ==
    /\ pc = "validate_methods"
    /\ fn = "hrv_freq"
    /\ methods' = lowered_methods(arg_methods)
    /\ IF methods_rejected(methods')
       THEN /\ raised' = "ValueError"
            /\ failed_at' = "methods"
            /\ pc' = "done"
       ELSE /\ pc' = "validate_norm_method"
            /\ UNCHANGED <<raised, failed_at>>
    /\ UNCHANGED <<fn, arg_methods, arg_norm_method, norm_method>>
    /\ UNCHANGED hrv_locals
    /\ UNCHANGED utils_vars
    /\ UNCHANGED axis_vars
    /\ UNCHANGED lomb_vars
    /\ UNCHANGED welch_vars
    /\ UNCHANGED time_vars
    /\ UNCHANGED samples_vars
    /\ UNCHANGED conf_vars
    /\ UNCHANGED ecg_vars
    /\ UNCHANGED caller_vars

\* lines 107-112: # Validate norm method
ValidateNormMethod ==
    /\ pc = "validate_norm_method"
    /\ fn = "hrv_freq"
    /\ norm_method' = lower(arg_norm_method)
    /\ IF norm_method_rejected(norm_method')
       THEN /\ raised' = "ValueError"
            /\ failed_at' = "norm_method"
            /\ pc' = "done"
       ELSE /\ pc' = "resolve_win_func"
            /\ UNCHANGED <<raised, failed_at>>
    /\ UNCHANGED <<fn, arg_methods, arg_norm_method, methods>>
    /\ UNCHANGED hrv_locals
    /\ UNCHANGED utils_vars
    /\ UNCHANGED axis_vars
    /\ UNCHANGED lomb_vars
    /\ UNCHANGED welch_vars
    /\ UNCHANGED time_vars
    /\ UNCHANGED samples_vars
    /\ UNCHANGED conf_vars
    /\ UNCHANGED ecg_vars
    /\ UNCHANGED caller_vars

NextHrv == ValidateMethods \/ ValidateNormMethod

SpecHrv == InitHrv /\ [][NextHrv]_vars

(***************************************************************************)
(* hrv_freq after the two validations, lines 114-179.                      *)
(***************************************************************************)
\* a window function is a callable, named here by what it computes, or the
\* string of its qualified name
Callable(name) == [is_str |-> FALSE, name |-> name]
Str(chars) == [is_str |-> TRUE, name |-> chars]

\* the last index of character c in the string str, 0 if there is none
RECURSIVE rfind(_, _, _)
rfind(str, c, i) ==
    IF i = 0 THEN 0 ELSE IF str[i] = c THEN i ELSE rfind(str, c, i - 1)

\* func_name.rsplit(".", 1): the parts around the last dot, one part if
\* the string has no dot
rsplit_dot(str) ==
    LET i == rfind(str, ".", Len(str))
    IN  IF i = 0 THEN <<str>>
        ELSE <<SubSeq(str, 1, i - 1), SubSeq(str, i + 1, Len(str))>>

\* the callables of the module scipy.signal.windows, by name
WindowsModule ==
    <<"s", "c", "i", "p", "y", ".", "s", "i", "g", "n", "a", "l", ".",
      "w", "i", "n", "d", "o", "w", "s">>
WindowsFunctions ==
    { <<"h", "a", "m", "m", "i", "n", "g">>, <<"b", "o", "x", "c", "a", "r">> }

\* utils.import_function_by_name(func_name): unpacking one part into
\* (mod_name, func_name) raises ValueError, so does an empty mod_name
import_function_by_name(str) ==
    LET parts == rsplit_dot(str)
    IN  IF Len(parts) # 2 THEN [raised |-> "ValueError", func |-> <<>>]
        ELSE IF parts[1] = <<>> THEN [raised |-> "ValueError", func |-> <<>>]
        ELSE IF parts[1] # WindowsModule
             THEN [raised |-> "ModuleNotFoundError", func |-> <<>>]
        ELSE IF parts[2] \notin WindowsFunctions
             THEN [raised |-> "AttributeError", func |-> <<>>]
        ELSE [raised |-> NoExc, func |-> Callable(parts[2])]

\* the guard: not len(vlf_band) == len(lf_band) == len(hf_band) == 2
band_arity_wrong(vlf, lf, hf) ==
    ~ (Len(vlf) = Len(lf) /\ Len(lf) = Len(hf) /\ Len(hf) = 2)

\* trr[0] and trr[-1] of a 1-d array of at least one timestamp
first_of(x) == Rat(x.data[1], x.unit)
last_of(x) == Rat(x.data[Len(x.data)], x.unit)

\* trr[-1] - trr[0]
duration(x) == RSub(last_of(x), first_of(x))

\* mutant: only a missing or zero window_minutes is replaced
window_minutes_unset_or_zero(wm) ==
    wm = <<>> \/ wm[1] = Zero \/ RLt(wm[1], Zero)

\* the guard: not window_minutes or window_minutes < 1; wm is <<>> for None
window_minutes_unset(wm) ==
    wm = <<>> \/ wm[1] = Zero \/ RLt(wm[1], One)

\* max(1, math.floor((trr[-1] - trr[0]) / 60))
auto_window_minutes(x) ==
    LET m == RFloor(RDiv(duration(x), FromInt(60)))
    IN  FromInt(IF m < 1 THEN 1 ELSE m)

\* lines 127-128: the window_minutes the call works with
window_minutes_of(wm, x) ==
    IF window_minutes_unset(wm) THEN auto_window_minutes(x) ELSE wm[1]

\* t_win = max(60 * window_minutes, t_win_min), t_win_min = 1 / f_min # 0
t_win_of(wm, fmin) == RMax(RMul(FromInt(60), wm), RDiv(One, fmin))

\* num_windows = math.floor(t_max / t_win), t_max = trr[-1]
num_windows_of(x, tw) == RFloor(RDiv(last_of(x), tw))

\* mutant: the single-window fallback is never taken
too_short_for_one_window_ignored(x, tw) == FALSE

\* the guard: num_windows < 1
too_short_for_one_window(x, tw) == num_windows_of(x, tw) < 1

\* t_win = math.floor(trr[-1] - trr[0])
single_window_t_win(x) == FromInt(RFloor(duration(x)))

\* trr_uni = np.r_[trr[0]:trr[-1]: 1 / fs_uni]; fs # 0
trr_uni_of(x, fs) == arange(first_of(x), last_of(x), RDiv(One, fs))

\* n_win_uni = math.floor(t_win / (1 / fs_uni)), line 150; fs # 0
hrv_n_win_uni_of(tw, fs) == RFloor(RDiv(tw, RDiv(One, fs)))

\* num_windows_uni = math.floor(len(trr_uni) / n_win_uni); n # 0
num_windows_uni_of(tu, n) == Len(tu) \div n

\* the guard of the Nyquist warning: n_win_uni < 2 * f_max * t_win
nyquist_not_met(n, fmax, tw) == RLt(FromInt(n), RMul(RMul(Two, fmax), tw))

(***************************************************************************)
(* SpecHrvFreq: one whole call of hrv_freq, statement by statement.  Each  *)
(* argument is drawn from its set by the statement that first reads it.    *)
(* The three estimators are calls out of the function: a call is recorded  *)
(* in `calls' with the window it was given, and it returns or raises.      *)
(***************************************************************************)
MaxStart == 2       \* a time axis starts at 0, 30, ..., 30 * MaxStart s
MaxStep == 2        \* its timestamps are 30, ..., 30 * MaxStep s apart
MaxWmHalves == 4    \* window_minutes is 0, 1/2, ..., MaxWmHalves / 2
MaxResample == 3    \* resample_factor is 1..MaxResample
MaxBandNum == 2     \* the lower VLF edge is 0, 1/60, ..., MaxBandNum / 60 Hz

HrvMethodNames ==
    { <<"l", "o", "m", "b">>, <<"W", "e", "l", "c", "h">>, <<"a", "r">>,
      <<"f", "f", "t">> }

HrvNormMethodNames ==
    { <<"t", "o", "t", "a", "l">>, <<"l", "f", "_", "h", "f">>,
      <<"L", "F", "_", "A", "F">> }

HrvWinFuncs ==
    { Callable(<<"h", "a", "m", "m", "i", "n", "g">>),
      Str(<<"s", "c", "i", "p", "y", ".", "s", "i", "g", "n", "a", "l", ".",
            "w", "i", "n", "d", "o", "w", "s", ".",
            "h", "a", "m", "m", "i", "n", "g">>),
      Str(<<"h", "a", "m", "m", "i", "n", "g">>) }

HrvRri ==
    {Array(<<n>>, [i \in 1..n |-> 1]) : n \in 1..MaxLen}
        \cup {Array(<<2, 2>>, <<1, 1, 1, 1>>)}
        \cup {ArrayOf(<<2>>, <<1, 1>>, SubSecond)}

HrvTrr ==
    {<<>>} \cup
    {<<Array(<<n>>, [i \in 1..n |-> 30 * (k + (i - 1) * dk)])>> :
        n \in 2..MaxLen, k \in 0..MaxStart, dk \in 1..MaxStep}

\* the band edges are multiples of 1/60 Hz; f_max, the upper HF edge, is
\* 1/15 Hz
HrvVlfBands ==
    {<<Rat(n, 60), Rat(1, 30)>> : n \in 0..MaxBandNum} \cup {<<Rat(1, 60)>>}
HrvLfBands ==
    {<<Rat(1, 30), Rat(1, 20)>>, <<Rat(1, 30), Rat(1, 20), Rat(1, 15)>>}
HrvHfBands == {<<Rat(1, 20), Rat(1, 15)>>, <<Rat(1, 15)>>}

HrvWindowMinutes == {<<>>} \cup {<<Rat(n, 2)>> : n \in 0..MaxWmHalves}
HrvResampleFactors == {FromInt(k) : k \in 1..MaxResample}
HrvOversampleFactors == {One, Two}

InitHrvFreq ==
    /\ pc = "validate_methods"
    /\ fn = "hrv_freq"
    /\ arg_methods \in SUBSET HrvMethodNames
    /\ arg_norm_method \in HrvNormMethodNames
    /\ methods = {}
    /\ norm_method = <<>>
    /\ failed_at = ""
    /\ raised = NoExc
    /\ IdleHrvLocals
    /\ IdleUtils
    /\ IdleAxis
    /\ IdleLomb
    /\ IdleWelch
    /\ IdleTime
    /\ IdleSamples
    /\ IdleConf
    /\ IdleEcg
    /\ IdleCaller

\* a statement raises: the call ends there
Raise(exc, at) ==
    /\ raised' = exc
    /\ failed_at' = at
    /\ pc' = "done"

hrv_args == <<fn, arg_methods, arg_norm_method, methods, norm_method>>

\* lines 114-116: # Convert window func if needed
ResolveWinFunc ==
    /\ pc = "resolve_win_func"
    /\ fn = "hrv_freq"
    /\ \E w \in HrvWinFuncs :
          IF w.is_str
          THEN LET r == import_function_by_name(w.name)
               IN  IF r.raised # NoExc
                   THEN /\ win_func' = w
                        /\ Raise(r.raised, "win_func")
                   ELSE /\ win_func' = r.func
                        /\ pc' = "standardize"
                        /\ UNCHANGED <<raised, failed_at>>
          ELSE /\ win_func' = w
               /\ pc' = "standardize"
               /\ UNCHANGED <<raised, failed_at>>
    /\ UNCHANGED hrv_args
    /\ UNCHANGED <<vlf_band, lf_band, hf_band, arg_window_minutes,
                   window_minutes, num_windows, trr_uni, n_win_uni,
                   num_windows_uni, warned, calls, pxx>>
    /\ UNCHANGED utils_vars
    /\ UNCHANGED axis_vars
    /\ UNCHANGED lomb_vars
    /\ UNCHANGED welch_vars
    /\ UNCHANGED time_vars
    /\ UNCHANGED samples_vars
    /\ UNCHANGED conf_vars
    /\ UNCHANGED ecg_vars
    /\ UNCHANGED caller_vars

\* lines 118-119: # Validate input vectors
StandardizeInputs ==
    /\ pc = "standardize"
    /\ fn = "hrv_freq"
    /\ \E r0 \in HrvRri, t0 \in HrvTrr :
          /\ rri' = r0
          /\ trr' = t0
          /\ LET r == standardize_rri_trr(r0, t0)
             IN  /\ ret_rri' = r.rri
                 /\ ret_trr' = r.trr
                 /\ IF r.raised # NoExc
                    THEN Raise(r.raised, "arrays")
                    ELSE /\ pc' = "validate_bands"
                         /\ UNCHANGED <<raised, failed_at>>
    /\ UNCHANGED hrv_args
    /\ UNCHANGED hrv_locals
    /\ UNCHANGED <<a, ret_a>>
    /\ UNCHANGED axis_vars
    /\ UNCHANGED lomb_vars
    /\ UNCHANGED welch_vars
    /\ UNCHANGED time_vars
    /\ UNCHANGED samples_vars
    /\ UNCHANGED conf_vars
    /\ UNCHANGED ecg_vars
    /\ UNCHANGED caller_vars

\* lines 121-124: # Validate bands
ValidateBands ==
    /\ pc = "validate_bands"
    /\ fn = "hrv_freq"
    /\ vlf_band' \in HrvVlfBands
    /\ lf_band' \in HrvLfBands
    /\ hf_band' \in HrvHfBands
    /\ IF band_arity_wrong(vlf_band', lf_band', hf_band')
       THEN Raise("ValueError", "bands")
       ELSE /\ pc' = "windowing"
            /\ UNCHANGED <<raised, failed_at>>
    /\ UNCHANGED hrv_args
    /\ UNCHANGED <<win_func, arg_window_minutes, window_minutes, num_windows,
                   trr_uni, n_win_uni, num_windows_uni, warned, calls, pxx>>
    /\ UNCHANGED utils_vars
    /\ UNCHANGED axis_vars
    /\ UNCHANGED lomb_vars
    /\ UNCHANGED welch_vars
    /\ UNCHANGED time_vars
    /\ UNCHANGED samples_vars
    /\ UNCHANGED conf_vars
    /\ UNCHANGED ecg_vars
    /\ UNCHANGED caller_vars

\* lines 126-141: window_minutes, t_win and the single-window fallback
Windowing ==
    /\ pc = "windowing"
    /\ fn = "hrv_freq"
    /\ arg_window_minutes' \in HrvWindowMinutes
    /\ window_minutes' = window_minutes_of(arg_window_minutes', ret_trr)
    /\ f_min' = vlf_band[1]
    /\ f_max' = hf_band[2]
    /\ IF f_min' = Zero
       THEN /\ Raise("ZeroDivisionError", "t_win_min")
            /\ UNCHANGED <<t_win, num_windows>>
       ELSE LET tw == t_win_of(window_minutes', f_min')
            IN  IF too_short_for_one_window(ret_trr, tw)
                THEN /\ num_windows' = 1
                     /\ t_win' = single_window_t_win(ret_trr)
                     /\ pc' = "build_axis"
                     /\ UNCHANGED <<raised, failed_at>>
                ELSE /\ num_windows' = num_windows_of(ret_trr, tw)
                     /\ t_win' = tw
                     /\ pc' = "build_axis"
                     /\ UNCHANGED <<raised, failed_at>>
    /\ UNCHANGED hrv_args
    /\ UNCHANGED <<win_func, vlf_band, lf_band, hf_band, trr_uni, n_win_uni,
                   num_windows_uni, warned, calls, pxx>>
    /\ UNCHANGED utils_vars
    /\ UNCHANGED <<resample_factor, oversample_factor, f_axis, fs_uni>>
    /\ UNCHANGED lomb_vars
    /\ UNCHANGED welch_vars
    /\ UNCHANGED time_vars
    /\ UNCHANGED samples_vars
    /\ UNCHANGED conf_vars
    /\ UNCHANGED ecg_vars
    /\ UNCHANGED caller_vars

\* lines 143-146: # Uniform frequency axis
BuildAxis ==
    /\ pc = "build_axis"
    /\ fn = "hrv_freq"
    /\ resample_factor' \in HrvResampleFactors
    /\ oversample_factor' \in HrvOversampleFactors
    /\ LET r == build_uniform_freq_axis(t_win, f_min, f_max,
                                        resample_factor', oversample_factor')
       IN  /\ f_axis' = r.f_axis
           /\ fs_uni' = r.fs_uni
           /\ IF r.raised # NoExc
              THEN Raise(r.raised, "build_uniform_freq_axis")
              ELSE /\ pc' = "uniform_time_axis"
                   /\ UNCHANGED <<raised, failed_at>>
    /\ UNCHANGED hrv_args
    /\ UNCHANGED hrv_locals
    /\ UNCHANGED utils_vars
    /\ UNCHANGED <<t_win, f_min, f_max>>
    /\ UNCHANGED lomb_vars
    /\ UNCHANGED welch_vars
    /\ UNCHANGED time_vars
    /\ UNCHANGED samples_vars
    /\ UNCHANGED conf_vars
    /\ UNCHANGED ecg_vars
    /\ UNCHANGED caller_vars

\* lines 148-156: # Uniform time axis, # Check Nyquist criterion
UniformTimeAxis ==
    /\ pc = "uniform_time_axis"
    /\ fn = "hrv_freq"
    /\ trr_uni' = trr_uni_of(ret_trr, fs_uni)
    /\ n_win_uni' = hrv_n_win_uni_of(t_win, fs_uni)
    /\ IF n_win_uni' = 0
       THEN /\ Raise("ZeroDivisionError", "num_windows_uni")
            /\ UNCHANGED <<num_windows_uni, warned>>
       ELSE /\ num_windows_uni' = num_windows_uni_of(trr_uni', n_win_uni')
            /\ warned' = nyquist_not_met(n_win_uni', f_max, t_win)
            /\ pc' = "lomb"
            /\ UNCHANGED <<raised, failed_at>>
    /\ UNCHANGED hrv_args
    /\ UNCHANGED <<win_func, vlf_band, lf_band, hf_band, arg_window_minutes,
                   window_minutes, num_windows, calls, pxx>>
    /\ UNCHANGED utils_vars
    /\ UNCHANGED axis_vars
    /\ UNCHANGED lomb_vars
    /\ UNCHANGED welch_vars
    /\ UNCHANGED time_vars
    /\ UNCHANGED samples_vars
    /\ UNCHANGED conf_vars
    /\ UNCHANGED ecg_vars
    /\ UNCHANGED caller_vars

\* the guard of line 160: 'lomb' in methods
lomb_requested(ms) == <<"l", "o", "m", "b">> \in ms

\* mutant: the Welch estimate is computed for every request
welch_requested_always(ms) == TRUE

\* the guard of line 169: 'welch' in methods
welch_requested(ms) == <<"w", "e", "l", "c", "h">> \in ms

\* scipy.signal.welch(..., fs, nperseg = n, return_onesided = True): the
\* frequencies of the bins it returns, k * fs / n for k = 0..n // 2
f_welch_of(fs, n) ==
    [k \in 1..(n \div 2 + 1) |-> RDiv(RMul(FromInt(k - 1), fs), FromInt(n))]

\* the estimate it returns: one value per bin, written as the bin's number
pxx_welch_of(n) == [k \in 1..(n \div 2 + 1) |-> k - 1]

\* mutant: the bin at f_max itself is dropped
below_f_max(f, fmax) == RLt(f, fmax)

\* the mask of line 177: f_welch <= f_max
up_to_f_max(f, fmax) == RLe(f, fmax)

\* line 177: pxx_welch[f_welch <= f_max], a new array of the values the mask
\* selects, in their order
masked(vals, freqs, fmax) ==
    LET idx == SelectSeq([k \in 1..Len(freqs) |-> k],
                         LAMBDA k : up_to_f_max(freqs[k], fmax))
    IN  [j \in 1..Len(idx) |-> vals[idx[j]]]

\* an estimator is called with the window w: the call is recorded, and it
\* returns or raises
Call(name, w) == [fn |-> name, t_win |-> w]

hrv_computed == <<win_func, vlf_band, lf_band, hf_band, arg_window_minutes,
                  window_minutes, num_windows, trr_uni, n_win_uni,
                  num_windows_uni, warned>>

\* lines 158-161: the Lomb periodogram, if asked for
Lomb ==
    /\ pc = "lomb"
    /\ fn = "hrv_freq"
    /\ IF lomb_requested(methods)
       THEN /\ calls' = Append(calls, Call("pxx_lomb", t_win))
            /\ \/ /\ pxx' = pxx \cup {"lomb"}
                  /\ pc' = "interpolate"
                  /\ UNCHANGED <<raised, failed_at>>
               \/ /\ Raise("Exception", "pxx_lomb")
                  /\ UNCHANGED pxx
       ELSE /\ pc' = "interpolate"
            /\ UNCHANGED <<calls, pxx, raised, failed_at>>
    /\ UNCHANGED hrv_args
    /\ UNCHANGED hrv_computed
    /\ UNCHANGED utils_vars
    /\ UNCHANGED axis_vars
    /\ UNCHANGED lomb_vars
    /\ UNCHANGED welch_vars
    /\ UNCHANGED time_vars
    /\ UNCHANGED samples_vars
    /\ UNCHANGED conf_vars
    /\ UNCHANGED ecg_vars
    /\ UNCHANGED caller_vars

\* lines 163-167: the cubic interpolator, built and applied to trr_uni
Interpolate ==
    /\ pc = "interpolate"
    /\ fn = "hrv_freq"
    /\ calls' = Append(calls, Call("interp1d", <<>>))
    /\ \/ /\ pc' = "welch"
          /\ UNCHANGED <<raised, failed_at>>
       \/ Raise("Exception", "interp1d")
    /\ UNCHANGED pxx
    /\ UNCHANGED hrv_args
    /\ UNCHANGED hrv_computed
    /\ UNCHANGED utils_vars
    /\ UNCHANGED axis_vars
    /\ UNCHANGED lomb_vars
    /\ UNCHANGED welch_vars
    /\ UNCHANGED time_vars
    /\ UNCHANGED samples_vars
    /\ UNCHANGED conf_vars
    /\ UNCHANGED ecg_vars
    /\ UNCHANGED caller_vars

\* lines 169-177: Welch's estimator on segments of n_win_uni samples, if
\* asked for
Welch ==
    /\ pc = "welch"
    /\ fn = "hrv_freq"
    /\ IF welch_requested(methods)
       THEN /\ calls' = Append(calls, Call("welch", FromInt(n_win_uni)))
            /\ \/ /\ f_welch' = f_welch_of(fs_uni, n_win_uni)
                  /\ pxx_welch' = pxx_welch_of(n_win_uni)
                  /\ pxx_welch_kept' = masked(pxx_welch', f_welch', f_max)
                  /\ pxx' = pxx \cup {"welch"}
                  /\ pc' = "return"
                  /\ UNCHANGED <<raised, failed_at>>
               \/ /\ Raise("Exception", "welch")
                  /\ UNCHANGED <<pxx, welch_vars>>
       ELSE /\ pc' = "return"
            /\ UNCHANGED <<calls, pxx, raised, failed_at, welch_vars>>
    /\ UNCHANGED hrv_args
    /\ UNCHANGED hrv_computed
    /\ UNCHANGED utils_vars
    /\ UNCHANGED axis_vars
    /\ UNCHANGED lomb_vars
    /\ UNCHANGED time_vars
    /\ UNCHANGED samples_vars
    /\ UNCHANGED conf_vars
    /\ UNCHANGED ecg_vars
    /\ UNCHANGED caller_vars

\* line 179: return pxx, f_axis
Return ==
    /\ pc = "return"
    /\ fn = "hrv_freq"
    /\ pc' = "done"
    /\ UNCHANGED <<raised, failed_at>>
    /\ UNCHANGED hrv_args
    /\ UNCHANGED hrv_locals
    /\ UNCHANGED utils_vars
    /\ UNCHANGED axis_vars
    /\ UNCHANGED lomb_vars
    /\ UNCHANGED welch_vars
    /\ UNCHANGED time_vars
    /\ UNCHANGED samples_vars
    /\ UNCHANGED conf_vars
    /\ UNCHANGED ecg_vars
    /\ UNCHANGED caller_vars

NextHrvFreq ==
    \/ ValidateMethods
    \/ ValidateNormMethod
    \/ ResolveWinFunc
    \/ StandardizeInputs
    \/ ValidateBands
    \/ Windowing
    \/ BuildAxis
    \/ UniformTimeAxis
    \/ Lomb
    \/ Interpolate
    \/ Welch
    \/ Return

SpecHrvFreq == InitHrvFreq /\ [][NextHrvFreq]_vars

(***************************************************************************)
(* pxx_lomb, statement by statement.                                       *)
(***************************************************************************)
\* the callables sps.windows.hamming and sps.windows.boxcar
Hamming == Callable(<<"h", "a", "m", "m", "i", "n", "g">>)
Boxcar == Callable(<<"b", "o", "x", "c", "a", "r">>)

\* Python's None where a callable is expected, and the float nan (0/0)
None == [is_str |-> FALSE, name |-> <<>>]
NaN == <<0, 0>>

\* line 17: the default of win_func is sps.windows.hamming; w is <<>> when
\* the caller omits the argument, else <<value>>
win_func_param(w) == IF w = <<>> THEN Hamming ELSE w[1]

\* mutant: None is left as it is
win_func_kept(w) == w

\* lines 38-39: if not win_func: win_func = sps.windows.boxcar
win_func_or_boxcar(w) == IF w = None THEN Boxcar ELSE w

\* lines 35-36: if not t_win: t_win = math.floor(trr[-1] - trr[0]);
\* tw is <<>> for None
t_win_or_duration(tw, x) ==
    IF tw = <<>> \/ tw[1] = Zero THEN FromInt(RFloor(duration(x))) ELSE tw[1]

\* line 44: sig_duration = trr[-1]
sig_duration_of(x) == last_of(x)

\* line 45: the k-th element of window_starts, t_win * k
win_start_of(tw, k) == RMul(tw, FromInt(k))

\* line 50: win_end = win_start + t_win
win_end_of(start, tw) == RAdd(start, tw)

\* the guard of `break': win_end > sig_duration
past_signal_end(end, sig) == RLt(sig, end)

\* line 54: win_idx = (trr >= win_start) & (trr < win_end), as the indices
\* the mask selects, ascending
win_idx_of(x, start, end) ==
    SelectSeq([j \in 1..Len(x.data) |-> j],
              LAMBDA j : /\ RLe(start, Rat(x.data[j], x.unit))
                         /\ RLt(Rat(x.data[j], x.unit), end))

\* x[win_idx]: a new array of the selected elements, in the unit of x
take(x, idx) == [j \in 1..Len(idx) |-> x.data[idx[j]]]

\* line 57: min_samples_nyq = math.ceil(2 * f_axis[-1] * t_win); axis # <<>>
min_samples_nyq_of(axis, tw) ==
    RCeil(RMul(RMul(Two, axis[Len(axis)]), tw))

\* mutant: a window with exactly the threshold is warned about too
too_few_samples_or_just_enough(n, m) == n <= m

\* the guard of the warning: len(rri_win) < min_samples_nyq
too_few_samples(n, m) == n < m

\* cos(2 * pi * k / m) for the m whose cosines are rational
cos_turn(k, m) ==
    LET r == k % m
    IN  IF r = 0 THEN One
        ELSE IF 2 * r = m THEN Rat(-1, 1)
        ELSE IF 4 * r = m \/ 4 * r = 3 * m THEN Zero
        ELSE IF 3 * r = m \/ 3 * r = 2 * m THEN Rat(-1, 2)
        ELSE Rat(1, 2)                      \* 6 * r = m or 6 * r = 5 * m

\* sps.windows.boxcar(n): n ones
boxcar(n) == [j \in 1..n |-> One]

\* sps.windows.hamming(n): 0.54 - 0.46 * cos(2 * pi * j / (n - 1)) for
\* j = 0..n-1, one 1 for n = 1
hamming(n) ==
    IF n = 1 THEN <<One>>
    ELSE [j \in 1..n |->
             RSub(Rat(54, 100), RMul(Rat(46, 100), cos_turn(j - 1, n - 1)))]

\* line 66: win_coeffs = win_func(len(rri_win))
win_coeffs_of(w, n) == IF w = Boxcar THEN boxcar(n) ELSE hamming(n)

\* line 67: rri_win *= win_coeffs, elementwise (in the unit of rri)
tapered(vals, coeffs) ==
    [j \in 1..Len(vals) |-> RMul(FromInt(vals[j]), coeffs[j])]

RECURSIVE RSum(_)
RSum(q) == IF q = <<>> THEN Zero ELSE RAdd(Head(q), RSum(Tail(q)))

\* line 78: 1 / np.mean(win_coeffs); the mean of no coefficients is nan
gain_of(coeffs) ==
    IF coeffs = <<>> THEN NaN
    ELSE RDiv(One, RDiv(RSum(coeffs), FromInt(Len(coeffs))))

\* lines 70-78: the periodogram sps.lombscargle(x, y, w_axis) of the
\* samples (x, y), scaled by the gain: one value per bin of the axis
periodogram(x, y, gain) == [x |-> x, y |-> y, gain |-> gain]

\* mutant: the windows are counted from 1
divisor_from_one(k) == k + 1

\* line 81: the divisor of pxx /= i
divisor_of(k) == k

\* the accumulated terms over the divisor, one value per bin of the axis;
\* a division by 0 or a nan term makes every bin nan
quotient(terms, d, axis) ==
    [bins |-> Len(axis), terms |-> terms, divisor |-> d,
     nan |-> d = 0 \/ \E j \in DOMAIN terms : terms[j].gain = NaN]

\* mutant: a division by zero raises, as it does between Python numbers
averaged_or_raised(terms, k, axis) ==
    IF divisor_of(k) = 0
    THEN [raised |-> "ZeroDivisionError", pxx |-> <<>>]
    ELSE [raised |-> NoExc, pxx |-> <<quotient(terms, divisor_of(k), axis)>>]

\* lines 81-82: pxx /= i; return pxx.  numpy divides an array by 0 to nan
\* with a RuntimeWarning and raises nothing
averaged(terms, k, axis) ==
    [raised |-> NoExc, pxx |-> <<quotient(terms, divisor_of(k), axis)>>]

(***************************************************************************)
(* SpecLomb: one call of pxx_lomb on inputs drawn by Init.  The frequency  *)
(* axis is one that build_uniform_freq_axis returns for the maximum        *)
(* frequency f_max.                                                        *)
(***************************************************************************)
MaxSamples == 4     \* rri holds 1..MaxSamples intervals
MaxTWin == 3        \* t_win is 0..MaxTWin seconds
MaxAxisTop == 2     \* f_max is 1..MaxAxisTop Hz
MaxIter == 12       \* the loop is followed for MaxIter iterations

LombRri ==
    {Array(<<n>>, [j \in 1..n |-> 1]) : n \in 1..MaxSamples}
        \cup {Array(<<n>>, [j \in 1..n |-> j]) : n \in 1..MaxSamples}
        \cup {ArrayOf(<<n>>, [j \in 1..n |-> 1], SubSecond) :
                  n \in 2..MaxSamples}

LombTrr ==
    {<<>>} \cup
    {<<Array(<<n>>, [j \in 1..n |-> t0 + j - 1])>> :
        n \in 1..MaxSamples, t0 \in 0..MaxVal}
    \cup {<<ArrayOf(<<n>>, [j \in 1..n |-> j - 1], SubSecond)>> :
              n \in 2..MaxSamples}

LombTWins == {<<>>} \cup {<<FromInt(k)>> : k \in 0..MaxTWin}

LombWinFuncs ==
    {<<>>, <<None>>, <<Hamming>>, <<Boxcar>>}

LombAxes ==
    {[f_max |-> FromInt(k), f_axis |-> f_axis_of(Rat(1, d), FromInt(k))] :
        k \in 1..MaxAxisTop, d \in 1..MaxDen}

InitLomb ==
    /\ pc = "call"
    /\ fn = "pxx_lomb"
    /\ rri \in LombRri
    /\ trr \in LombTrr
    /\ arg_t_win \in LombTWins
    /\ arg_win_func \in LombWinFuncs
    /\ \E ax \in LombAxes : f_axis = ax.f_axis /\ f_max = ax.f_max
    /\ a = NoArray
    /\ ret_a = NoArray
    /\ ret_rri = NoArray
    /\ ret_trr = NoArray
    /\ t_win = Zero
    /\ f_min = Zero
    /\ resample_factor = Zero
    /\ oversample_factor = Zero
    /\ fs_uni = Zero
    /\ win_func = <<>>
    /\ lomb_i = 0
    /\ win_log = <<>>
    /\ acc = <<>>
    /\ ret_pxx = <<>>
    /\ raised = NoExc
    /\ IdleHrv
    /\ IdleWelch
    /\ IdleTime
    /\ IdleSamples
    /\ IdleConf
    /\ IdleEcg
    /\ IdleCaller

hrv_vars_but_win_func ==
    <<arg_methods, arg_norm_method, methods, norm_method, failed_at,
      vlf_band, lf_band, hf_band, arg_window_minutes, window_minutes,
      num_windows, trr_uni, n_win_uni, num_windows_uni, warned, calls, pxx>>

lomb_args == <<fn, a, rri, trr, ret_a, f_axis, f_min, f_max, resample_factor,
               oversample_factor, fs_uni, arg_t_win, arg_win_func>>

\* lines 33-48: the arrays are standardized, t_win and win_func get their
\* defaults, the accumulator is zeroed
LombEnter ==
    /\ pc = "call"
    /\ fn = "pxx_lomb"
    /\ LET r == standardize_rri_trr(rri, trr)
       IN  /\ ret_rri' = r.rri
           /\ ret_trr' = r.trr
           /\ IF r.raised # NoExc
              THEN /\ raised' = r.raised
                   /\ pc' = "done"
                   /\ UNCHANGED <<t_win, win_func>>
              ELSE /\ t_win' = t_win_or_duration(arg_t_win, r.trr)
                   /\ win_func' =
                          win_func_or_boxcar(win_func_param(arg_win_func))
                   /\ pc' = "loop"
                   /\ UNCHANGED raised
    /\ UNCHANGED <<lomb_i, win_log, acc, ret_pxx>>
    /\ UNCHANGED lomb_args
    /\ UNCHANGED hrv_vars_but_win_func
    /\ UNCHANGED welch_vars
    /\ UNCHANGED time_vars
    /\ UNCHANGED samples_vars
    /\ UNCHANGED conf_vars
    /\ UNCHANGED ecg_vars
    /\ UNCHANGED caller_vars

\* lines 49-79: one iteration of the loop over the windows
LombIterate ==
    /\ pc = "loop"
    /\ fn = "pxx_lomb"
    /\ lomb_i < MaxIter
    /\ LET win_start == win_start_of(t_win, lomb_i)
           win_end == win_end_of(win_start, t_win)
       IN  IF past_signal_end(win_end, sig_duration_of(ret_trr))
           THEN /\ pc' = "average"
                /\ UNCHANGED <<lomb_i, win_log, acc, raised>>
           ELSE IF f_axis = <<>>
           THEN /\ raised' = "IndexError"
                /\ pc' = "done"
                /\ UNCHANGED <<lomb_i, win_log, acc>>
           ELSE LET win_idx == win_idx_of(ret_trr, win_start, win_end)
                    rri_win == take(ret_rri, win_idx)
                    min_samples_nyq == min_samples_nyq_of(f_axis, t_win)
                    win_coeffs == win_coeffs_of(win_func, Len(rri_win))
                    pxx_win == periodogram(ret_trr.data, ret_rri.data,
                                           gain_of(win_coeffs))
                IN  /\ win_log' = Append(win_log,
                           [k |-> lomb_i,
                            win_start |-> win_start,
                            win_end |-> win_end,
                            win_idx |-> win_idx,
                            min_samples_nyq |-> min_samples_nyq,
                            warned |-> too_few_samples(Len(rri_win),
                                                       min_samples_nyq),
                            win_coeffs |-> win_coeffs,
                            rri_win |-> tapered(rri_win, win_coeffs),
                            pxx_win |-> pxx_win])
                    /\ acc' = Append(acc, pxx_win)
                    /\ lomb_i' = lomb_i + 1
                    /\ UNCHANGED <<pc, raised>>
    /\ UNCHANGED <<ret_rri, ret_trr, t_win, win_func, ret_pxx>>
    /\ UNCHANGED lomb_args
    /\ UNCHANGED hrv_vars_but_win_func
    /\ UNCHANGED welch_vars
    /\ UNCHANGED time_vars
    /\ UNCHANGED samples_vars
    /\ UNCHANGED conf_vars
    /\ UNCHANGED ecg_vars
    /\ UNCHANGED caller_vars

\* lines 81-82: pxx /= i; return pxx
LombAverage ==
    /\ pc = "average"
    /\ fn = "pxx_lomb"
    /\ LET r == averaged(acc, lomb_i, f_axis)
       IN  /\ ret_pxx' = r.pxx
           /\ raised' = r.raised
    /\ pc' = "done"
    /\ UNCHANGED <<ret_rri, ret_trr, t_win, win_func, lomb_i, win_log, acc>>
    /\ UNCHANGED lomb_args
    /\ UNCHANGED hrv_vars_but_win_func
    /\ UNCHANGED welch_vars
    /\ UNCHANGED time_vars
    /\ UNCHANGED samples_vars
    /\ UNCHANGED conf_vars
    /\ UNCHANGED ecg_vars
    /\ UNCHANGED caller_vars

NextLomb == LombEnter \/ LombIterate \/ LombAverage

SpecLomb == InitLomb /\ [][NextLomb]_vars

(***************************************************************************)
(* Claims about build_uniform_freq_axis, checked under SpecAxis.           *)
(***************************************************************************)
Returned == pc = "done" /\ raised = NoExc

\* The window the function works with once line 113 has run (f_min # 0).
EffectiveWindow == RMax(t_win, RDiv(One, f_min))

\* n = floor(t_win * fs) for the effective window and fs = R * f_max.
SamplesPerWindow == RFloor(RMul(EffectiveWindow, RMul(resample_factor, f_max)))

\* C1: every call with resample_factor < 2 raises ValueError and returns no
\* axis, whatever t_win, f_min, f_max and oversample_factor are.
C1_SmallResampleFactorRaisesValueError ==
    (pc = "done" /\ RLt(resample_factor, Two)) =>
        (raised = "ValueError" /\ f_axis = <<>>)

\* C7: a call with t_win shorter than 1/f_min returns exactly the axis and
\* the fs (or raises exactly the exception) of the call with t_win = 1/f_min
\* and otherwise identical arguments.
C7_ShortWindowIsRaisedToMinimalWindow ==
    (pc = "done" /\ f_min # Zero /\ RLt(t_win, RDiv(One, f_min))) =>
        LET r == build_uniform_freq_axis(RDiv(One, f_min), f_min, f_max,
                                         resample_factor, oversample_factor)
        IN  /\ raised = r.raised
            /\ f_axis = r.f_axis
            /\ fs_uni = r.fs_uni

\* C7 witness: a call with a too-short window that returned a non-empty axis.
C7_Witness ==
    /\ Returned
    /\ RLt(t_win, RDiv(One, f_min))
    /\ Len(f_axis) > 1

\* C8 as stated: the base resolution is fs / (n - 1) and the first bin of the
\* returned axis is that value divided by the oversample factor.
C8_FirstBinIsFsOverNMinusOne ==
    (Returned /\ Len(f_axis) > 0) =>
        /\ fs_uni = RMul(resample_factor, f_max)
        /\ f_axis[1] = RDiv(RDiv(fs_uni, FromInt(SamplesPerWindow - 1)),
                            oversample_factor)

\* The step the code computes: 1 / (n * ts) with ts = t_win / (n - 1), that
\* is (n - 1) / (n * t_win), divided by the oversample factor.
EffectiveStep ==
    RDiv(RDiv(FromInt(SamplesPerWindow - 1),
              RMul(FromInt(SamplesPerWindow), EffectiveWindow)),
         oversample_factor)

\* C8 amended: with n = floor(t_win * fs) and fs = R * f_max, the base
\* resolution is (n - 1) / (n * t_win) for the effective window t_win, and
\* the first bin of the returned axis is that value divided by O.
C8_FirstBinIsNMinusOneOverNTimesWindow ==
    Returned =>
        /\ fs_uni = RMul(resample_factor, f_max)
        /\ SamplesPerWindow >= 2
        /\ Len(f_axis) > 0 => f_axis[1] = EffectiveStep

\* C8 witness: a returned axis with a first bin, more than two samples per
\* window and a real oversampling.
C8_Witness ==
    /\ Returned
    /\ Len(f_axis) > 0
    /\ SamplesPerWindow > 2
    /\ RLt(One, oversample_factor)

C10_LargerOversampleStrictlyMoreBins ==
    (Returned /\ RLt(Zero, f_min) /\ RLt(f_min, f_max)) =>
        \A O2 \in OversampleFactors :
            RLt(oversample_factor, O2) =>
                LET r == build_uniform_freq_axis(t_win, f_min, f_max,
                                                 resample_factor, O2)
                IN  /\ r.raised = NoExc
                    /\ r.fs_uni = fs_uni
                    /\ fs_uni = RMul(resample_factor, f_max)
                    /\ Len(r.f_axis) > Len(f_axis)

\* C10 amended: for R >= 2, a larger oversample factor never gives fewer
\* bins, gives strictly more when f_min <= f_max and O2 >= O1 + 1 (so for
\* integer factors), and fs is the same in both calls and equals R * f_max.
C10_LargerOversampleNoFewerBins ==
    Returned =>
        \A O2 \in OversampleFactors :
            RLt(oversample_factor, O2) =>
                LET r == build_uniform_freq_axis(t_win, f_min, f_max,
                                                 resample_factor, O2)
                IN  /\ r.raised = NoExc
                    /\ r.fs_uni = fs_uni
                    /\ fs_uni = RMul(resample_factor, f_max)
                    /\ Len(r.f_axis) >= Len(f_axis)
                    /\ (RLe(f_min, f_max) /\ RLe(RAdd(oversample_factor, One), O2))
                           => Len(r.f_axis) > Len(f_axis)

\* C10 witness: a returned non-empty axis for bands f_min < f_max and an
\* oversample factor that the inputs can exceed by one or more.
C10_Witness ==
    /\ Returned
    /\ RLt(f_min, f_max)
    /\ Len(f_axis) > 0
    /\ \E O2 \in OversampleFactors : RLe(RAdd(oversample_factor, One), O2)

(***************************************************************************)
(* Claims about np_squeeze_check and standardize_rri_trr, checked under    *)
(* SpecUtils.                                                              *)
(***************************************************************************)
SqueezeDone == pc = "done" /\ fn = "np_squeeze_check"
StdDone == pc = "done" /\ fn = "standardize_rri_trr"

\* the number of dimensions of x whose length is not 1
NonUnitDims(x) == Cardinality({i \in 1..Len(x.shape) : x.shape[i] # 1})

\* C4: standardize_rri_trr either raises or returns two 1-dimensional arrays
\* of equal length that hold the input elements in their original order; a
\* supplied trr whose length differs from that of rri always raises.
C4_StandardizeReturnsEqualLength1dArrays ==
    StdDone =>
        /\ raised = NoExc =>
               /\ ndim(ret_rri) = 1
               /\ ndim(ret_trr) = 1
               /\ len(ret_rri) = len(ret_trr)
               /\ Len(ret_rri.data) = Len(ret_trr.data)
               /\ ret_rri.data = rri.data
               /\ trr # <<>> => ret_trr.data = trr[1].data
        /\ (trr # <<>> /\ Len(trr[1].data) # Len(rri.data)) => raised # NoExc

\* C5: np_squeeze_check returns a 1-d array with the same elements in the
\* same order for every array with exactly one non-unit dimension, and raises
\* for every array with more than one non-unit dimension.
C5_SqueezeCheckFlattensExactlyOneNonUnitDim ==
    SqueezeDone =>
        /\ NonUnitDims(a) = 1 =>
               /\ raised = NoExc
               /\ ret_a.shape = <<Len(a.data)>>
               /\ ret_a.data = a.data
        /\ NonUnitDims(a) > 1 => raised = "ValueError"

\* C5 witness: a 3-dimensional array with unit dimensions around its one
\* non-unit dimension came back 1-d with its two different elements in order.
C5_Witness ==
    /\ SqueezeDone
    /\ ndim(a) = 3
    /\ a.shape[1] = 1
    /\ a.shape[3] = 1
    /\ raised = NoExc
    /\ ret_a.shape = <<a.shape[2]>>
    /\ Len(ret_a.data) >= 2
    /\ ret_a.data[1] # ret_a.data[2]

\* C6: when trr is omitted the returned time axis has the length of rri,
\* trr[0] = 0 and trr[i] = rri[0] + ... + rri[i-1] for every i >= 1.
C6_OmittedTrrIsShiftedCumulativeSum ==
    (StdDone /\ trr = <<>> /\ raised = NoExc) =>
        /\ Len(ret_trr.data) = Len(ret_rri.data)
        /\ \A i \in 1..Len(ret_trr.data) :
               ret_trr.data[i] = SumTo(rri.data, i - 1)

(***************************************************************************)
(* Claims about hrv_freq's validation, checked under SpecHrv.              *)
(***************************************************************************)
MethodsChecked == fn = "hrv_freq" /\ pc # "validate_methods"
NormMethodChecked ==
    /\ fn = "hrv_freq"
    /\ pc \notin {"validate_methods", "validate_norm_method"}
    /\ failed_at # "methods"

\* C2: hrv_freq accepts norm_method 'total' and 'lf_hf', in any case, and
\* rejects every other value with a ValueError.
C2_NormMethodTotalAndLfHfAccepted ==
    NormMethodChecked =>
        LET accepted == ~(failed_at = "norm_method" /\ raised = "ValueError")
        IN  accepted <=>
                lower(arg_norm_method) \in { <<"t", "o", "t", "a", "l">>,
                                             <<"l", "f", "_", "h", "f">> }

\* C3: the methods validation raises ValueError exactly when the requested
\* set is empty or holds a name that, lower-cased, is not lomb, welch or ar;
\* every non-empty subset of {lomb, welch, ar} passes.
C3_MethodsRejectedIffEmptyOrUnsupported ==
    MethodsChecked =>
        LET known == { <<"l", "o", "m", "b">>, <<"w", "e", "l", "c", "h">>,
                       <<"a", "r">> }
            failed == failed_at = "methods" /\ raised = "ValueError"
        IN  /\ failed <=>
                   \/ arg_methods = {}
                   \/ \E m \in arg_methods : lower(m) \notin known
            /\ (arg_methods # {} /\ arg_methods \subseteq known) => ~failed
            /\ ~failed => (methods \subseteq known /\ methods # {})

\* C3 witness: a request of two or more names, one of them in upper case,
\* that passed the validation.
C3_Witness ==
    /\ MethodsChecked
    /\ failed_at = ""
    /\ <<"L", "O", "M", "B">> \in arg_methods
    /\ Cardinality(methods) >= 2

(***************************************************************************)
(* Claims about hrv_freq after its validations, checked under SpecHrvFreq. *)
(***************************************************************************)
\* line 128 has run: window_minutes holds the value the call works with
WindowMinutesSet == fn = "hrv_freq" /\ window_minutes # <<>>

\* line 135 has run as well: 1 / f_min did not raise
TWinSet == WindowMinutesSet /\ failed_at # "t_win_min"

\* the first and the last timestamp of the standardized time axis, seconds
FirstStamp == Rat(ret_trr.data[1], ret_trr.unit)
LastStamp == Rat(ret_trr.data[Len(ret_trr.data)], ret_trr.unit)

\* max(1, floor(duration / 60)), in whole numbers
AutoMinutes ==
    LET m == RFloor(RDiv(RSub(LastStamp, FirstStamp), FromInt(60)))
    IN  FromInt(IF m < 1 THEN 1 ELSE m)

\* max(60 * wm, 1 / f_min)
WindowOf(wm) == RMax(RMul(FromInt(60), wm), RDiv(One, f_min))

C12_SingleWindowIffDurationBelowWindow ==
    TWinSet =>
        LET w == WindowOf(window_minutes)
            total == RSub(LastStamp, FirstStamp)
        IN  IF RLt(total, w)
            THEN num_windows = 1 /\ t_win = FromInt(RFloor(total))
            ELSE t_win = w

\* C13 as stated: one window duration is used everywhere in a call: the
\* window build_uniform_freq_axis computes samples-per-window and the step
\* from, the t_win given to pxx_lomb and the t_win n_win_uni is derived
\* from are the same value, also after the single-window fallback.
C13_OneWindowDurationEverywhere ==
    (fn = "hrv_freq" /\ n_win_uni # 0) =>
        LET axis_window == RMax(t_win, RDiv(One, f_min))
            axis_samples == RFloor(RMul(axis_window, fs_uni))
        IN  /\ n_win_uni = axis_samples
            /\ \A i \in DOMAIN calls :
                   calls[i].fn = "pxx_lomb" => calls[i].t_win = axis_window

\* the validations the call makes, by the statement that raises
Validations ==
    {"methods", "norm_method", "arrays", "bands", "build_uniform_freq_axis"}

ValidationFailed ==
    fn = "hrv_freq" /\ raised = "ValueError" /\ failed_at \in Validations

\* C14: when a validation of hrv_freq fails (methods, norm_method, array
\* shape or length, band arity, resample_factor < 2) the call has ended
\* there with no estimator called and no spectrum stored; so an estimator
\* is only ever called on a request with known methods, 1-d arrays of
\* equal length, bands of two elements and resample_factor >= 2.
C14_ValidationErrorsPrecedeEstimators ==
    /\ ValidationFailed => (pc = "done" /\ calls = <<>> /\ pxx = {})
    /\ (fn = "hrv_freq" /\ calls # <<>>) =>
           /\ failed_at \notin Validations
           /\ arg_methods # {}
           /\ \A m \in arg_methods :
                  lower(m) \in { <<"l", "o", "m", "b">>, <<"a", "r">>,
                                 <<"w", "e", "l", "c", "h">> }
           /\ Len(ret_rri.shape) = 1 /\ ret_rri.shape = ret_trr.shape
           /\ Len(vlf_band) = 2 /\ Len(lf_band) = 2 /\ Len(hf_band) = 2
           /\ RLe(Two, resample_factor)

\* C14 witness: a request for the Lomb estimator that passed every other
\* validation and was refused for its resample_factor of 1.
C14_Witness ==
    /\ ValidationFailed
    /\ failed_at = "build_uniform_freq_axis"
    /\ <<"l", "o", "m", "b">> \in methods
    /\ resample_factor = One
    /\ calls = <<>>

(***************************************************************************)
(* Claims about pxx_lomb, checked under SpecLomb.                          *)
(***************************************************************************)
\* the arrays were standardized and the loop was entered
InLomb ==
    fn = "pxx_lomb" /\ pc \in {"loop", "average", "done"} /\ ret_trr # NoArray

\* pxx_lomb returned
LombReturned == fn = "pxx_lomb" /\ pc = "done" /\ ret_pxx # <<>>

SignalStart == Rat(ret_trr.data[1], ret_trr.unit)
SignalEnd == Rat(ret_trr.data[Len(ret_trr.data)], ret_trr.unit)

\* the timestamps and the intervals of the samples a window selects
StampsIn(w) == [j \in 1..Len(w.win_idx) |-> ret_trr.data[w.win_idx[j]]]
IntervalsIn(w) == [j \in 1..Len(w.win_idx) |-> ret_rri.data[w.win_idx[j]]]

\* C15 as stated: the windows processed are [s + k * t_win, s + (k + 1) *
\* t_win) for k = 0, 1, ... in ascending k, with s = trr[0], each kept only
\* if its end is not past the last timestamp; a returned call has processed
\* every such window, and no sample lies in two windows.
C15_WindowsStartAtFirstTimestamp ==
    InLomb =>
        /\ \A j \in DOMAIN win_log :
               /\ win_log[j].win_start =
                      RAdd(SignalStart, RMul(FromInt(j - 1), t_win))
               /\ win_log[j].win_end = RAdd(win_log[j].win_start, t_win)
               /\ RLe(win_log[j].win_end, SignalEnd)
        /\ \A j, l \in DOMAIN win_log :
               j # l => \A m \in DOMAIN win_log[j].win_idx :
                            \A n \in DOMAIN win_log[l].win_idx :
                                win_log[j].win_idx[m] # win_log[l].win_idx[n]
        /\ LombReturned =>
               RLt(SignalEnd,
                   RAdd(SignalStart, RMul(FromInt(Len(win_log) + 1), t_win)))

\* C16 as stated: the periodogram a window adds to the accumulator is
\* computed from the samples whose timestamps lie in the window only, their
\* intervals multiplied elementwise by the window coefficients.
C16_PeriodogramOfTaperedWindowSamples ==
    InLomb =>
        \A j \in DOMAIN win_log :
            LET w == win_log[j]
            IN  /\ w.pxx_win.x = StampsIn(w)
                /\ w.pxx_win.y =
                       [m \in 1..Len(w.win_idx) |->
                           RMul(FromInt(IntervalsIn(w)[m]), w.win_coeffs[m])]
                /\ acc[j] = w.pxx_win

\* C17: pxx_lomb returns one value per bin of f_axis: the sum of the
\* periodograms of the windows it processed, in order, divided by their
\* number whenever there is at least one.
C17_DivisorIsNumberOfAccumulatedWindows ==
    LombReturned =>
        /\ ret_pxx[1].bins = Len(f_axis)
        /\ ret_pxx[1].terms = [j \in 1..Len(win_log) |-> win_log[j].pxx_win]
        /\ Len(win_log) >= 1 => ret_pxx[1].divisor = Len(win_log)

\* C17 witness: a call that returned the average of three windows.
C17_Witness ==
    /\ LombReturned
    /\ Len(win_log) = 3
    /\ ret_pxx[1].divisor = 3
    /\ ret_pxx[1].bins >= 2

\* C18: when t_win is greater than the last timestamp no window is
\* processed, nothing is raised, and the call returns the zero accumulator
\* divided by 0: a result of nan in every bin.
C18_NoWindowGivesDegenerateResult ==
    (InLomb /\ RLt(SignalEnd, t_win)) =>
        /\ win_log = <<>> /\ acc = <<>>
        /\ raised = NoExc
        /\ pc = "done" =>
               /\ ret_pxx # <<>>
               /\ ret_pxx[1].terms = <<>>
               /\ ret_pxx[1].divisor = 0
               /\ ret_pxx[1].nan
               /\ ret_pxx[1].bins = Len(f_axis)

\* C18 witness: a call with a window of 3 s on timestamps that end at 2 s
\* has returned.
C18_Witness ==
    /\ LombReturned
    /\ t_win = FromInt(3)
    /\ SignalEnd = Two
    /\ f_axis # <<>>
    /\ ret_pxx[1].divisor = 0

\* the number of samples a window selects
SamplesIn(w) == Len(w.win_idx)

\* C19 as stated: a window is warned about exactly when it has fewer than
\* ceil(2 * f_max * t_win) samples, f_max being the configured maximum
\* frequency.
C19_WarningIffBelowTwiceFMaxTimesWindow ==
    InLomb =>
        \A j \in DOMAIN win_log :
            win_log[j].warned <=>
                SamplesIn(win_log[j]) < RCeil(RMul(RMul(Two, f_max), t_win))

\* C19, amended: a window is warned about exactly when it has fewer than
\* ceil(2 * f_axis[-1] * t_win) samples, f_axis[-1] being the last bin of
\* the frequency axis; the warning raises nothing, the window's periodogram
\* is accumulated all the same, and the call returns it in the result.
C19_WarningIffBelowTwiceLastBinTimesWindow ==
    InLomb =>
        /\ \A j \in DOMAIN win_log :
               /\ win_log[j].warned <=>
                      SamplesIn(win_log[j]) <
                          RCeil(RMul(RMul(Two, f_axis[Len(f_axis)]), t_win))
               /\ j \in DOMAIN acc /\ acc[j] = win_log[j].pxx_win
        /\ win_log # <<>> => raised = NoExc
        /\ (win_log # <<>> /\ pc = "done") =>
               (ret_pxx # <<>> /\ ret_pxx[1].terms = acc)

\* C19 witness: a returned result holds a window of one sample that was
\* warned about, in a call whose last bin, 3/2 Hz, is below f_max = 2 Hz.
C19_Witness ==
    /\ LombReturned
    /\ f_max = Two
    /\ f_axis[Len(f_axis)] = Rat(3, 2)
    /\ t_win = One
    /\ \E j \in DOMAIN win_log :
           win_log[j].warned /\ SamplesIn(win_log[j]) = 1

AllOnes(q) == \A j \in DOMAIN q : q[j] = One

\* C20 as stated: when win_func is omitted or None the rectangular window
\* is applied: every coefficient is 1 and so is the gain correction.
C20_NoWindowFunctionMeansRectangular ==
    (InLomb /\ arg_win_func \in {<<>>, <<None>>}) =>
        \A j \in DOMAIN win_log :
            /\ AllOnes(win_log[j].win_coeffs)
            /\ SamplesIn(win_log[j]) >= 1 => win_log[j].pxx_win.gain = One

\* C20, amended: when win_func is None the rectangular window is applied,
\* every coefficient is 1 and the gain correction of a window that holds a
\* sample is 1; when win_func is omitted the Hamming window, its default, is
\* applied, whose coefficients for two or more samples are not all 1.
C20_NoneMeansRectangularOmittedMeansHamming ==
    InLomb =>
        /\ arg_win_func = <<None>> =>
               \A j \in DOMAIN win_log :
                   /\ Len(win_log[j].win_coeffs) = SamplesIn(win_log[j])
                   /\ AllOnes(win_log[j].win_coeffs)
                   /\ SamplesIn(win_log[j]) >= 1 =>
                          win_log[j].pxx_win.gain = One
        /\ arg_win_func = <<>> =>
               \A j \in DOMAIN win_log :
                   /\ Len(win_log[j].win_coeffs) = SamplesIn(win_log[j])
                   /\ SamplesIn(win_log[j]) >= 2 =>
                          /\ win_log[j].win_coeffs[1] = Rat(8, 100)
                          /\ win_log[j].pxx_win.gain # One

\* C20 witness: None was given and a window of two or more samples was
\* processed with a gain correction of 1.
C20_Witness ==
    /\ InLomb
    /\ arg_win_func = <<None>>
    /\ \E j \in DOMAIN win_log :
           SamplesIn(win_log[j]) >= 2 /\ win_log[j].pxx_win.gain = One

(***************************************************************************)
(* Claims about the result of hrv_freq, checked under SpecHrvFreq.         *)
(***************************************************************************)
\* hrv_freq returned (pxx, f_axis)
HrvReturned == fn = "hrv_freq" /\ pc = "done" /\ raised = NoExc

\* the names of the estimators called so far, in order
Called == [j \in DOMAIN calls |-> calls[j].fn]

Requested(name) == \E m \in arg_methods : lower(m) = name

C29_LombWindowFitsTheSignal ==
    fn = "hrv_freq" =>
        \A j \in DOMAIN calls :
            calls[j].fn = "pxx_lomb" =>
                /\ RLe(Zero, FirstStamp)
                /\ RLt(Zero, calls[j].t_win)
                /\ RLe(calls[j].t_win, LastStamp)
                /\ calls[j].t_win = t_win
                /\ RFloor(RDiv(LastStamp, calls[j].t_win)) >= 1

\* C29 witness: pxx_lomb was called after the single-window fallback, on a
\* recording of 30 s that starts at 0.
C29_Witness ==
    /\ fn = "hrv_freq"
    /\ calls # <<>>
    /\ calls[1].fn = "pxx_lomb"
    /\ calls[1].t_win = FromInt(30)
    /\ FirstStamp = Zero
    /\ LastStamp = FromInt(30)

(***************************************************************************)
(* sec_to_time (pyhrv/utils.py) and the string form of its result.         *)
(***************************************************************************)
\* Python's x // y and x % y on floats, y > 0: the floor of the quotient
\* and what is left of x
floordiv(x, y) == FromInt(RFloor(RDiv(x, y)))
mod(x, y) == RSub(x, RMul(y, floordiv(x, y)))

\* int(x) of a float: the fraction is cut off, toward zero
int(x) == IF x[1] >= 0 THEN x[1] \div x[2] ELSE -((-x[1]) \div x[2])

\* the guard of `raise ValueError('Invalid argument value')'
sec_negative(x) == RLt(x, Zero)

\* d = int(sec // (3600 * 24))
days_of(x) == int(floordiv(x, FromInt(3600 * 24)))

\* mutant: the hours are not reduced modulo 24
hours_in_all(x) == int(floordiv(x, FromInt(3600)))

\* h = int((sec // 3600) % 24)
hours_of(x) == int(mod(floordiv(x, FromInt(3600)), FromInt(24)))

\* m = int((sec // 60) % 60)
minutes_of(x) == int(mod(floordiv(x, FromInt(60)), FromInt(60)))

\* s = int(sec % 60)
seconds_of(x) == int(mod(x, FromInt(60)))

\* ms = int((sec % 1) * 1000)
millis_of(x) == int(RMul(mod(x, One), FromInt(1000)))

\* the named tuple __T(d, h, m, s, ms)
T(dd, hh, mm, ss, ms) == [d |-> dd, h |-> hh, m |-> mm, s |-> ss, ms |-> ms]

\* sec_to_time(sec): what it raises, or the fields it returns
sec_to_time(x) ==
    IF sec_negative(x) THEN [raised |-> "ValueError", time |-> <<>>]
    ELSE [raised |-> NoExc,
          time |-> <<T(days_of(x), hours_of(x), minutes_of(x),
                       seconds_of(x), millis_of(x))>>]

\* the decimal digits of a number n >= 0, as format(n, 'd') writes them
DigitChars == <<"0", "1", "2", "3", "4", "5", "6", "7", "8", "9">>
RECURSIVE decimal(_)
decimal(n) ==
    IF n < 10 THEN <<DigitChars[n + 1]>>
    ELSE decimal(n \div 10) \o <<DigitChars[(n % 10) + 1]>>

\* format(n, '0wd'): the digits, with zeros in front up to the width w
zero_padded(n, w) ==
    LET digits == decimal(n)
    IN  IF Len(digits) >= w THEN digits
        ELSE [j \in 1..(w - Len(digits)) |-> "0"] \o digits

\* the first f-string of __repr__: "" if d == 0, else the days and a '+'
day_prefix(t) == IF t.d = 0 THEN <<>> ELSE decimal(t.d) \o <<"+">>

\* __T.__repr__, which str() of the named tuple uses
repr(t) ==
    day_prefix(t) \o zero_padded(t.h, 2) \o <<":">> \o zero_padded(t.m, 2)
        \o <<":">> \o zero_padded(t.s, 2) \o <<".">> \o zero_padded(t.ms, 3)

(***************************************************************************)
(* SpecTime: one call of sec_to_time, then str() of what it returned.      *)
(* The argument is a time of day on one of the first days, to a fraction   *)
(* of a second, or the negative of one.                                    *)
(***************************************************************************)
MaxDays == 2        \* sec lies within days 0..MaxDays
MaxFrac == 3        \* fractions of a second have denominators 1..MaxFrac

Secs ==
    {RMul(FromInt(sg),
          RAdd(FromInt(dd * 86400 + hh * 3600 + mm * 60 + ss), Rat(k, dn))) :
        sg \in {1, -1}, dd \in 0..MaxDays, hh \in {0, 1, 23},
        mm \in {0, 59}, ss \in {0, 59},
        k \in 0..(MaxFrac - 1), dn \in 1..MaxFrac}

InitTime ==
    /\ pc = "call"
    /\ fn = "sec_to_time"
    /\ sec \in Secs
    /\ ret_time = <<>>
    /\ ret_str = <<>>
    /\ raised = NoExc
    /\ IdleUtils
    /\ IdleAxis
    /\ IdleHrv
    /\ IdleLomb
    /\ IdleWelch
    /\ IdleSamples
    /\ IdleConf
    /\ IdleEcg
    /\ IdleCaller

pipeline_vars == <<utils_vars, axis_vars, hrv_vars, lomb_vars, welch_vars>>

CallSecToTime ==
    /\ pc = "call"
    /\ fn = "sec_to_time"
    /\ LET r == sec_to_time(sec)
       IN  /\ ret_time' = r.time
           /\ raised' = r.raised
    /\ pc' = "done"
    /\ UNCHANGED <<fn, sec, ret_str>>
    /\ UNCHANGED pipeline_vars
    /\ UNCHANGED samples_vars
    /\ UNCHANGED conf_vars
    /\ UNCHANGED ecg_vars
    /\ UNCHANGED caller_vars

StrOfTime ==
    /\ pc = "done"
    /\ fn = "sec_to_time"
    /\ raised = NoExc
    /\ ret_str' = repr(ret_time[1])
    /\ pc' = "shown"
    /\ UNCHANGED <<fn, sec, ret_time, raised>>
    /\ UNCHANGED pipeline_vars
    /\ UNCHANGED samples_vars
    /\ UNCHANGED conf_vars
    /\ UNCHANGED ecg_vars
    /\ UNCHANGED caller_vars

NextTime == CallSecToTime \/ StrOfTime

SpecTime == InitTime /\ [][NextTime]_vars

(***************************************************************************)
(* wfdb_time_to_samples (pyhrv/wfdb/utils.py): the regular expressions,    *)
(* tried in the order of the code, on a string of characters.              *)
(***************************************************************************)
\* \d+ on a whole string: one or more characters, all of them digits
IsDigit(c) == \E k \in DOMAIN DigitChars : DigitChars[k] = c
all_digits(chars) == chars # <<>> /\ \A k \in DOMAIN chars : IsDigit(chars[k])

\* \d{lo,hi} on a whole string
digits_of_length(chars, lo, hi) ==
    all_digits(chars) /\ Len(chars) >= lo /\ Len(chars) <= hi

\* int() of a string of digits
DigitValue(c) == (CHOOSE k \in DOMAIN DigitChars : DigitChars[k] = c) - 1
RECURSIVE int_of(_)
int_of(chars) ==
    IF chars = <<>> THEN 0
    ELSE 10 * int_of(SubSeq(chars, 1, Len(chars) - 1))
             + DigitValue(chars[Len(chars)])

\* the pieces of a string between the occurrences of a separator
RECURSIVE split(_, _)
split(chars, sep) ==
    IF \A k \in DOMAIN chars : chars[k] # sep THEN <<chars>>
    ELSE LET n == CHOOSE k \in DOMAIN chars :
                      chars[k] = sep /\ \A l \in 1..(k - 1) : chars[l] # sep
         IN  <<SubSeq(chars, 1, n - 1)>>
                 \o split(SubSeq(chars, n + 1, Len(chars)), sep)

\* re.match(r'^s(\d+)$', time)
matches_sample(chars) == chars # <<>> /\ Head(chars) = "s" /\ all_digits(Tail(chars))

\* re.match(r'^\d+$', time)
matches_seconds(chars) == all_digits(chars)

\* re.match(r'^(\d{1,2}):(\d{1,2}):(\d{1,2})$', time)
matches_hhmmss(chars) ==
    LET g == split(chars, ":")
    IN  Len(g) = 3 /\ \A k \in 1..3 : digits_of_length(g[k], 1, 2)

\* re.match(r'^(\d{1,2}):(\d{1,2})(?:\.(\d{1,3}))?$', time)
matches_mmssyyy(chars) ==
    LET g == split(chars, ":")
    IN  /\ Len(g) = 2
        /\ digits_of_length(g[1], 1, 2)
        /\ LET p == split(g[2], ".")
           IN  /\ Len(p) \in {1, 2}
               /\ digits_of_length(p[1], 1, 2)
               /\ Len(p) = 2 => digits_of_length(p[2], 1, 3)

\* the guard of both `raise ValueError("Invalid number of minutes or
\* seconds")': m > 60 or s > 60
minutes_or_seconds_invalid(mm, ss) == mm > 60 \/ ss > 60

\* line 152: ms = int(yyy + (3 - len(yyy)) * '0') if yyy else 0
ms_of(yyy) ==
    IF yyy = <<>> THEN 0
    ELSE int_of(yyy \o [k \in 1..(3 - Len(yyy)) |-> "0"])

Returns(v) == [raised |-> NoExc, samples |-> <<v>>]
RaisesValueError == [raised |-> "ValueError", samples |-> <<>>]

\* wfdb_time_to_samples(time, fs): what it raises, or the value it returns
wfdb_time_to_samples(chars, rate) ==
    IF chars = <<"e">> THEN Returns(-1)
    ELSE IF matches_sample(chars) THEN Returns(int_of(Tail(chars)))
    ELSE IF matches_seconds(chars)
         THEN Returns(int(RMul(FromInt(int_of(chars)), rate)))
    ELSE IF matches_hhmmss(chars)
         THEN LET g == split(chars, ":")
                  hh == int_of(g[1])
                  mm == int_of(g[2])
                  ss == int_of(g[3])
              IN  IF minutes_or_seconds_invalid(mm, ss) THEN RaisesValueError
                  ELSE Returns(int(RMul(FromInt(hh * 3600 + mm * 60 + ss),
                                        rate)))
    ELSE IF matches_mmssyyy(chars)
         THEN LET g == split(chars, ":")
                  p == split(g[2], ".")
                  mm == int_of(g[1])
                  ss == int_of(p[1])
                  ms == ms_of(IF Len(p) = 2 THEN p[2] ELSE <<>>)
              IN  IF minutes_or_seconds_invalid(mm, ss) THEN RaisesValueError
                  ELSE Returns(int(RMul(RAdd(FromInt(mm * 60 + ss),
                                             Rat(ms, 1000)), rate)))
    ELSE RaisesValueError

(***************************************************************************)
(* SpecSamples: one call of wfdb_time_to_samples.  The time string is any  *)
(* string of up to MaxTimeLen characters of TimeChars, or fields of up to  *)
(* MaxDigits digits joined as hh:mm:ss or mm:ss[.yyy].                     *)
(***************************************************************************)
MaxTimeLen == 4     \* any string of 0..MaxTimeLen characters
MaxDigits == 3      \* a field has 0..MaxDigits digits, yyy one more
MaxFsHalves == 3    \* fs is 1/2..MaxFsHalves/2 samples per second

TimeChars == {"0", "6", ":", ".", "s", "e"}
TimeDigits == {"0", "6"}

StringsOver(alphabet, n) == UNION {[1..k -> alphabet] : k \in 0..n}

TimeStrings ==
    StringsOver(TimeChars, MaxTimeLen)
        \cup {f \o <<":">> \o g \o <<":">> \o h :
                  f \in StringsOver(TimeDigits, MaxDigits),
                  g \in StringsOver(TimeDigits, MaxDigits),
                  h \in StringsOver(TimeDigits, MaxDigits)}
        \cup {f \o <<":">> \o g \o <<".">> \o y :
                  f \in StringsOver(TimeDigits, MaxDigits),
                  g \in StringsOver(TimeDigits, MaxDigits),
                  y \in StringsOver(TimeDigits, MaxDigits + 1)}

SampleRates == {Rat(k, 2) : k \in 1..MaxFsHalves}

InitSamples ==
    /\ pc = "call"
    /\ fn = "wfdb_time_to_samples"
    /\ time \in TimeStrings
    /\ arg_fs \in SampleRates
    /\ ret_samples = <<>>
    /\ raised = NoExc
    /\ IdleUtils
    /\ IdleAxis
    /\ IdleHrv
    /\ IdleLomb
    /\ IdleWelch
    /\ IdleTime
    /\ IdleConf
    /\ IdleEcg
    /\ IdleCaller

CallWfdbTimeToSamples ==
    /\ pc = "call"
    /\ fn = "wfdb_time_to_samples"
    /\ LET r == wfdb_time_to_samples(time, arg_fs)
       IN  /\ ret_samples' = r.samples
           /\ raised' = r.raised
    /\ pc' = "done"
    /\ UNCHANGED <<fn, time, arg_fs>>
    /\ UNCHANGED pipeline_vars
    /\ UNCHANGED time_vars
    /\ UNCHANGED conf_vars
    /\ UNCHANGED ecg_vars
    /\ UNCHANGED caller_vars

SpecSamples == InitSamples /\ [][CallWfdbTimeToSamples]_vars

(***************************************************************************)
(* conf.get_override (pyhrv/conf/__init__.py).  A Python value is its type *)
(* and a number n: the value of an int or a bool, the length of a list or  *)
(* a string, 0 for None.                                                   *)
(***************************************************************************)
Value(kind, n) == [kind |-> kind, n |-> n]
PyNone == Value("NoneType", 0)

\* bool(v): None, 0, False and the empty sequences are false
truthy(v) == v.n # 0

\* get_val(f'{common_prefix}.{k}'): the configured value of the parameter
get_val(conf, prefix, k) == conf[<<prefix, k>>]

\* line 52: v if v else get_val(f'{common_prefix}.{k}')
override_or_configured(conf, prefix, k, v) ==
    IF truthy(v) THEN v ELSE get_val(conf, prefix, k)

(***************************************************************************)
(* SpecConf: one call of get_override, one iteration of its loop at a      *)
(* time.  Every parameter the caller names is configured.                  *)
(***************************************************************************)
MaxParams == 2      \* the caller gives 0..MaxParams keyword arguments
MaxN == 1           \* ints are 0..MaxN, sequences have 0..MaxN elements

ParamNames == {"window_minutes", "welch_overlap", "ar_order"}
Prefixes == {"hrv_freq"}

OverrideValues ==
    {PyNone} \cup {Value(kind, n) : kind \in {"int", "bool", "list", "str"},
                                    n \in 0..MaxN}
ConfiguredValues == {Value("int", 5), Value("list", 2)}

\* keyword arguments: the names differ, the order is the caller's
ParamOverrides ==
    {q \in UNION {[1..n -> ParamNames \X OverrideValues] : n \in 0..MaxParams} :
        \A j, l \in DOMAIN q : j # l => q[j][1] # q[l][1]}

InitConf ==
    /\ pc = "call"
    /\ fn = "get_override"
    /\ common_prefix \in Prefixes
    /\ param_overrides \in ParamOverrides
    /\ pyhrv_conf \in [Prefixes \X ParamNames -> ConfiguredValues]
    /\ retvals = <<>>
    /\ raised = NoExc
    /\ IdleUtils
    /\ IdleAxis
    /\ IdleHrv
    /\ IdleLomb
    /\ IdleWelch
    /\ IdleTime
    /\ IdleSamples
    /\ IdleEcg
    /\ IdleCaller

\* lines 51-52: one iteration of the loop over param_overrides.items()
AppendRetval ==
    /\ pc = "call"
    /\ fn = "get_override"
    /\ Len(retvals) < Len(param_overrides)
    /\ LET item == param_overrides[Len(retvals) + 1]
       IN  retvals' = Append(retvals,
                             override_or_configured(pyhrv_conf, common_prefix,
                                                    item[1], item[2]))
    /\ UNCHANGED <<pc, fn, raised, common_prefix, param_overrides, pyhrv_conf>>
    /\ UNCHANGED pipeline_vars
    /\ UNCHANGED time_vars
    /\ UNCHANGED samples_vars
    /\ UNCHANGED ecg_vars
    /\ UNCHANGED caller_vars

\* line 53: return retvals
ReturnRetvals ==
    /\ pc = "call"
    /\ fn = "get_override"
    /\ Len(retvals) = Len(param_overrides)
    /\ pc' = "done"
    /\ UNCHANGED <<fn, raised>>
    /\ UNCHANGED conf_vars
    /\ UNCHANGED pipeline_vars
    /\ UNCHANGED time_vars
    /\ UNCHANGED samples_vars
    /\ UNCHANGED ecg_vars
    /\ UNCHANGED caller_vars

NextConf == AppendRetval \/ ReturnRetvals

SpecConf == InitConf /\ [][NextConf]_vars

(***************************************************************************)
(* ecgpuwave_wrapper (pyhrv/wfdb/qrs.py), statement by statement.  The     *)
(* tool is outside the program: its exit status, what it writes to stderr  *)
(* and the fort.* files it leaves are chosen freely.                       *)
(***************************************************************************)
\* lines 115-131: the command line; an optional argument adds its flag when
\* it is truthy (None, '' and the channel 0 add nothing)
flag_if(flag, arg) ==
    IF arg = <<>> \/ arg[1] = "" \/ arg[1] = "0" THEN <<>> ELSE <<flag, arg[1]>>
command_of(args) ==
    <<"ecgpuwave", "-r", "rec_name", "-a", "out_ann_ext">>
        \o flag_if("-i", args.in_ann_ext) \o flag_if("-s", args.channel)
        \o flag_if("-f", args.from_time) \o flag_if("-t", args.to_time)

\* re.match(r'Rearranging annotations[\w\s.]+done!', stderr)
Rearranging == "Rearranging annotations ... done!"
rearranging_message(err) == err = Rearranging

\* lines 142-147: stderr is not empty and is not the harmless message
stderr_unexpected(err) == err # "" /\ ~ rearranging_message(err)

\* the f-strings of lines 150-153 and 157-159 read ecgpuwave_result
result_unbound(res) == res = <<>>

(***************************************************************************)
(* SpecEcg: one call of ecgpuwave_wrapper.                                 *)
(***************************************************************************)
MaxChannel == 1     \* channel is None or 0..MaxChannel

ToolFiles == {"fort.20", "fort.21"}
Stderrs == {"", Rearranging, "error"}
Channels == {<<>>} \cup {<<DigitChars[k + 1]>> : k \in 0..MaxChannel}

EcgArgs ==
    [is_record : BOOLEAN,
     in_ann_ext : {<<>>, <<"atr">>},
     channel : Channels,
     from_time : {<<>>, <<"0:40">>},
     to_time : {<<>>, <<"0:30">>}]

InitEcg ==
    /\ pc = "call"
    /\ fn = "ecgpuwave_wrapper"
    /\ ecg_args \in EcgArgs
    /\ ecgpuwave_command = <<>>
    /\ tool = NotRun
    /\ ecgpuwave_result = <<>>
    /\ fort_files \in SUBSET ToolFiles
    /\ warnings = 0
    /\ ret_ok = <<>>
    /\ raised = NoExc
    /\ IdleUtils
    /\ IdleAxis
    /\ IdleHrv
    /\ IdleLomb
    /\ IdleWelch
    /\ IdleTime
    /\ IdleSamples
    /\ IdleConf
    /\ IdleCaller

other_vars == <<pipeline_vars, time_vars, samples_vars, conf_vars>>

\* lines 108-109: the record is looked up before anything else
CheckRecord ==
    /\ pc = "call"
    /\ fn = "ecgpuwave_wrapper"
    /\ IF ecg_args.is_record
       THEN pc' = "build" /\ UNCHANGED raised
       ELSE pc' = "done" /\ raised' = "ValueError"
    /\ UNCHANGED <<fn, ecg_vars>>
    /\ UNCHANGED other_vars
    /\ UNCHANGED caller_vars

\* lines 111-131
BuildCommand ==
    /\ pc = "build"
    /\ fn = "ecgpuwave_wrapper"
    /\ ecgpuwave_command' = command_of(ecg_args)
    /\ pc' = "run"
    /\ UNCHANGED <<fn, raised, ecg_args, tool, ecgpuwave_result, fort_files,
                   warnings, ret_ok>>
    /\ UNCHANGED other_vars
    /\ UNCHANGED caller_vars

\* lines 134-138: subprocess.run(..., check=True, timeout=10).  It returns
\* the completed process when the tool exits with status 0, and raises
\* CalledProcessError or TimeoutExpired otherwise, binding nothing.
RunTool ==
    /\ pc = "run"
    /\ fn = "ecgpuwave_wrapper"
    /\ \E left \in SUBSET ToolFiles, err \in Stderrs :
           /\ fort_files' = fort_files \cup left
           /\ \/ /\ tool' = [outcome |-> "exit 0", stderr |-> err]
                 /\ ecgpuwave_result' = <<[returncode |-> 0, stderr |-> err]>>
                 /\ pc' = "check_stderr"
              \/ /\ tool' = [outcome |-> "exit 1", stderr |-> err]
                 /\ pc' = "except CalledProcessError"
                 /\ UNCHANGED ecgpuwave_result
              \/ /\ tool' = [outcome |-> "timeout", stderr |-> err]
                 /\ pc' = "except TimeoutExpired"
                 /\ UNCHANGED ecgpuwave_result
    /\ UNCHANGED <<fn, raised, ecg_args, ecgpuwave_command, warnings, ret_ok>>
    /\ UNCHANGED other_vars
    /\ UNCHANGED caller_vars

\* lines 142-147
CheckStderr ==
    /\ pc = "check_stderr"
    /\ fn = "ecgpuwave_wrapper"
    /\ pc' = IF stderr_unexpected(ecgpuwave_result[1].stderr)
             THEN "except CalledProcessError" ELSE "finally"
    /\ UNCHANGED <<fn, raised, ecg_vars>>
    /\ UNCHANGED other_vars
    /\ UNCHANGED caller_vars

\* lines 149-154: the warning reads ecgpuwave_result, then return False
ExceptCalledProcessError ==
    /\ pc = "except CalledProcessError"
    /\ fn = "ecgpuwave_wrapper"
    /\ IF result_unbound(ecgpuwave_result)
       THEN raised' = "UnboundLocalError" /\ UNCHANGED <<warnings, ret_ok>>
       ELSE /\ warnings' = warnings + 1
            /\ ret_ok' = <<FALSE>>
            /\ UNCHANGED raised
    /\ pc' = "finally"
    /\ UNCHANGED <<fn, ecg_args, ecgpuwave_command, tool, ecgpuwave_result,
                   fort_files>>
    /\ UNCHANGED other_vars
    /\ UNCHANGED caller_vars

\* lines 156-160: the warning reads ecgpuwave_result, then return False
ExceptTimeoutExpired ==
    /\ pc = "except TimeoutExpired"
    /\ fn = "ecgpuwave_wrapper"
    /\ IF result_unbound(ecgpuwave_result)
       THEN raised' = "UnboundLocalError" /\ UNCHANGED <<warnings, ret_ok>>
       ELSE /\ warnings' = warnings + 1
            /\ ret_ok' = <<FALSE>>
            /\ UNCHANGED raised
    /\ pc' = "finally"
    /\ UNCHANGED <<fn, ecg_args, ecgpuwave_command, tool, ecgpuwave_result,
                   fort_files>>
    /\ UNCHANGED other_vars
    /\ UNCHANGED caller_vars

\* lines 161-171: every fort.* file is removed (one that another process
\* has removed already is passed over); then the pending return or
\* exception takes effect, or line 171 returns True
Finally ==
    /\ pc = "finally"
    /\ fn = "ecgpuwave_wrapper"
    /\ fort_files' = {}
    /\ ret_ok' = IF raised = NoExc /\ ret_ok = <<>> THEN <<TRUE>> ELSE ret_ok
    /\ pc' = "done"
    /\ UNCHANGED <<fn, raised, ecg_args, ecgpuwave_command, tool,
                   ecgpuwave_result, warnings>>
    /\ UNCHANGED other_vars
    /\ UNCHANGED caller_vars

NextEcg ==
    \/ CheckRecord
    \/ BuildCommand
    \/ RunTool
    \/ CheckStderr
    \/ ExceptCalledProcessError
    \/ ExceptTimeoutExpired
    \/ Finally

SpecEcg == InitEcg /\ [][NextEcg]_vars

(***************************************************************************)
(* hrv_freq as one function of its arguments and of the caller's arrays,   *)
(* composed of the statements above.  rri and trr inside the call are      *)
(* views of the caller's arrays (squeeze gives a view), so what a          *)
(* statement stores in them the caller sees.                               *)
(***************************************************************************)
\* mutant: rri[win_idx] is a view, and the product is stored in rri
stored_in_place(x, idx, coeffs) ==
    [x EXCEPT !.data =
        [j \in DOMAIN x.data |->
            IF \E m \in DOMAIN idx : idx[m] = j
            THEN LET m == CHOOSE m \in DOMAIN idx : idx[m] = j
                 IN  RFloor(RMul(FromInt(x.data[j]), coeffs[m]))
            ELSE x.data[j]]]

\* frequency.py lines 55, 67: rri_win = rri[win_idx] selects with a boolean
\* mask, which makes a new array; rri_win *= win_coeffs is stored in that
\* array, and rri keeps its elements
stored_in_copy(x, idx, coeffs) == x

\* frequency.py lines 49-79, the loop from window k on: the terms added to
\* pxx, the number of windows and rri as the loop leaves it
RECURSIVE lomb_loop(_, _, _, _, _, _)
lomb_loop(x, t, tw, w, k, terms) ==
    LET win_start == win_start_of(tw, k)
        win_end == win_end_of(win_start, tw)
    IN  IF past_signal_end(win_end, sig_duration_of(t))
        THEN [raised |-> NoExc, rri |-> x, terms |-> terms, k |-> k]
        ELSE IF w.axis = <<>>
        THEN [raised |-> "IndexError", rri |-> x, terms |-> terms, k |-> k]
        ELSE LET win_idx == win_idx_of(t, win_start, win_end)
                 win_coeffs == win_coeffs_of(w.func, Len(win_idx))
                 x_now == stored_in_copy(x, win_idx, win_coeffs)
                 pxx_win == periodogram(t.data, x_now.data,
                                        gain_of(win_coeffs))
             IN  lomb_loop(x_now, t, tw, w, k + 1, Append(terms, pxx_win))

\* lines 81-82 after the loop r: what pxx_lomb raises or returns, and rri
\* as it leaves it
pxx_lomb_returned(r, axis) ==
    IF r.raised # NoExc
    THEN [raised |-> r.raised, pxx |-> <<>>, rri |-> r.rri]
    ELSE [raised |-> NoExc,
          pxx |-> averaged(r.terms, r.k, axis).pxx, rri |-> r.rri]

\* lines 35-82 on the standardized arrays st, with t_win # 0
pxx_lomb_standardized(st, x, axis, tw, w) ==
    IF st.raised # NoExc
    THEN [raised |-> st.raised, pxx |-> <<>>, rri |-> x]
    ELSE pxx_lomb_returned(
             lomb_loop(st.rri, st.trr, t_win_or_duration(<<tw>>, st.trr),
                       [func |-> win_func_or_boxcar(w), axis |-> axis],
                       0, <<>>),
             axis)

\* frequency.pxx_lomb(rri, f_axis, trr, t_win, win_func) with t_win # 0:
\* what it raises or the periodogram it returns, and rri as it leaves it
pxx_lomb(x, axis, t, tw, w) ==
    pxx_lomb_standardized(standardize_rri_trr(x, <<t>>), x, axis, tw, w)

HrvFreqRaised(exc) == [raised |-> exc, pxx |-> <<>>, f_axis |-> <<>>]

\* hrv.py lines 158-161: the Lomb periodogram, if asked for
lomb_estimate(args, x, t, tw, axis) ==
    IF lomb_requested(lowered_methods(args.methods))
    THEN pxx_lomb(x, axis, t, tw, args.win_func)
    ELSE [raised |-> NoExc, pxx |-> <<>>, rri |-> x]

\* scipy.interpolate.interp1d(x, y, kind='cubic') applied to the instants
\* `at', and scipy.signal.welch applied to its values: functions of their
\* arguments, written as the arguments they were given
interpolated(x, y, at) == [x |-> x, y |-> y, at |-> at]

\* hrv.py lines 169-177: Welch's estimate of rri_uni, if asked for
welch_estimate(args, rri_uni, fs, n) ==
    IF welch_requested(lowered_methods(args.methods))
    THEN <<[of |-> rri_uni,
            kept |-> masked(pxx_welch_of(n), f_welch_of(fs, n),
                            args.hf_band[2])]>>
    ELSE <<>>

\* hrv.py lines 163-179 after the Lomb estimate: what the call raises or
\* returns, and rri as it leaves it
returned_estimates(args, lomb, t, ax, tu, n) ==
    IF lomb.raised # NoExc
    THEN [ret |-> HrvFreqRaised(lomb.raised), rri |-> lomb.rri]
    ELSE [ret |-> [raised |-> NoExc,
                   pxx |-> [lomb |-> lomb.pxx,
                            welch |-> welch_estimate(
                                args,
                                interpolated(t.data, lomb.rri.data, tu),
                                ax.fs_uni, n)],
                   f_axis |-> ax.f_axis],
          rri |-> lomb.rri]

\* hrv.py lines 158-179 on the standardized arrays x, t
spectrums(args, x, t, tw, ax, tu, n) ==
    returned_estimates(args, lomb_estimate(args, x, t, tw, ax.f_axis),
                       t, ax, tu, n)

\* an exception leaves the call before any statement stores in an array
raised_early(exc, x0) == [ret |-> HrvFreqRaised(exc), rri |-> x0]

\* the standardized rri is a view of the caller's array: the elements the
\* call leaves in it are the caller's
seen_by_caller(x0, r) ==
    [ret |-> r.ret, rri |-> [x0 EXCEPT !.data = r.rri.data]]

\* hrv.py lines 146-179, once build_uniform_freq_axis has returned ax
hrv_freq_on_axis(args, x0, st, tw, ax) ==
    IF ax.raised # NoExc THEN raised_early(ax.raised, x0)
    ELSE IF hrv_n_win_uni_of(tw, ax.fs_uni) = 0
    THEN raised_early("ZeroDivisionError", x0)
    ELSE seen_by_caller(x0,
             spectrums(args, st.rri, st.trr, tw, ax,
                       trr_uni_of(st.trr, ax.fs_uni),
                       hrv_n_win_uni_of(tw, ax.fs_uni)))

\* hrv.py lines 138-141: the window, or the single window of a recording
\* too short for one
hrv_t_win(t, tw0) ==
    IF too_short_for_one_window(t, tw0) THEN single_window_t_win(t) ELSE tw0

\* hrv.py lines 143-179 with the window tw
hrv_freq_windowed(args, x0, st, tw) ==
    hrv_freq_on_axis(args, x0, st, tw,
        build_uniform_freq_axis(tw, args.vlf_band[1], args.hf_band[2],
                                args.resample_factor,
                                args.oversample_factor))

\* hrv.py lines 119-179, once standardize_rri_trr has returned st
hrv_freq_standardized(args, x0, st) ==
    IF st.raised # NoExc THEN raised_early(st.raised, x0)
    ELSE IF band_arity_wrong(args.vlf_band, args.lf_band, args.hf_band)
    THEN raised_early("ValueError", x0)
    ELSE IF args.vlf_band[1] = Zero
    THEN raised_early("ZeroDivisionError", x0)
    ELSE hrv_freq_windowed(args, x0, st,
             hrv_t_win(st.trr,
                 t_win_of(window_minutes_of(args.window_minutes, st.trr),
                          args.vlf_band[1])))

\* hrv_freq(rri, trr, **args) with norm_method and win_func valid: what the
\* call raises or returns, and the caller's rri as the call leaves it
hrv_freq(args, x0, t0) ==
    IF methods_rejected(lowered_methods(args.methods))
    THEN raised_early("ValueError", x0)
    ELSE hrv_freq_standardized(args, x0, standardize_rri_trr(x0, t0))

(***************************************************************************)
(* SpecRepeat: a caller makes up to MaxCalls calls of hrv_freq, one after  *)
(* the other, each with arguments of its choice and all on the same two    *)
(* arrays.                                                                 *)
(***************************************************************************)
MaxCalls == 3       \* the caller makes 1..MaxCalls calls

RepeatRri == {Array(<<n>>, [j \in 1..n |-> 1]) : n \in 2..MaxLen}

RepeatTrr ==
    {<<>>} \cup
    {<<Array(<<n>>, [j \in 1..n |-> 30 * (j - 1) * dk])>> :
        n \in 2..MaxLen, dk \in 1..MaxStep}

RepeatArgs ==
    [methods : {{<<"l", "o", "m", "b">>},
                {<<"L", "o", "m", "b">>, <<"w", "e", "l", "c", "h">>},
                {<<"a", "r">>}},
     win_func : {Hamming, Boxcar},
     window_minutes : {<<>>},
     vlf_band : {<<Rat(1, 60), Rat(1, 30)>>},
     lf_band : {<<Rat(1, 30), Rat(1, 20)>>},
     hf_band : {<<Rat(1, 20), Rat(1, 15)>>},
     resample_factor : {FromInt(MaxResample)},
     oversample_factor : {One}]

InitRepeat ==
    /\ pc = "call"
    /\ fn = "hrv_freq twice"
    /\ rri \in RepeatRri
    /\ trr \in RepeatTrr
    /\ a = NoArray
    /\ ret_a = NoArray
    /\ ret_rri = NoArray
    /\ ret_trr = NoArray
    /\ pending \in UNION {[1..n -> RepeatArgs] : n \in 1..MaxCalls}
    /\ returned = <<>>
    /\ raised = NoExc
    /\ IdleAxis
    /\ IdleHrv
    /\ IdleLomb
    /\ IdleWelch
    /\ IdleTime
    /\ IdleSamples
    /\ IdleConf
    /\ IdleEcg

\* the caller's next call: hrv_freq(rri, trr, **args)
CallHrvFreq ==
    /\ pc = "call"
    /\ fn = "hrv_freq twice"
    /\ pending # <<>>
    /\ LET r == hrv_freq(Head(pending), rri, trr)
       IN  /\ returned' = Append(returned,
                                 [args |-> Head(pending), ret |-> r.ret])
           /\ rri' = r.rri
    /\ pending' = Tail(pending)
    /\ UNCHANGED <<pc, fn, raised, trr, a, ret_a, ret_rri, ret_trr>>
    /\ UNCHANGED <<axis_vars, hrv_vars, lomb_vars, welch_vars>>
    /\ UNCHANGED <<time_vars, samples_vars, conf_vars, ecg_vars>>

\* the caller is done
CallerDone ==
    /\ pc = "call"
    /\ fn = "hrv_freq twice"
    /\ pending = <<>>
    /\ pc' = "done"
    /\ UNCHANGED <<fn, raised, caller_vars>>
    /\ UNCHANGED <<utils_vars, axis_vars, hrv_vars, lomb_vars, welch_vars>>
    /\ UNCHANGED <<time_vars, samples_vars, conf_vars, ecg_vars>>

NextRepeat == CallHrvFreq \/ CallerDone

SpecRepeat == InitRepeat /\ [][NextRepeat]_vars

\* the bins of the Welch estimate whose frequency is not above f_max
KeptBins == {k \in DOMAIN f_welch : RLe(f_welch[k], f_max)}

\* C21: the Welch entry hrv_freq returns holds, in their order, exactly the
\* bins of the Welch estimate (bin k at k * fs_uni / n_win_uni, k = 0 ..
\* n_win_uni // 2) whose frequency is <= f_max; no bin above f_max is
\* returned.
C21_WelchEntryIsTheBinsUpToFMax ==
    (HrvReturned /\ "welch" \in pxx) =>
        /\ Len(f_welch) = n_win_uni \div 2 + 1
        /\ Len(pxx_welch) = Len(f_welch)
        /\ \A k \in DOMAIN f_welch :
               RMul(f_welch[k], FromInt(n_win_uni)) =
                   RMul(FromInt(k - 1), fs_uni)
        /\ Len(pxx_welch_kept) = Cardinality(KeptBins)
        /\ \A k \in KeptBins :
               pxx_welch_kept[Cardinality({m \in KeptBins : m <= k})] =
                   pxx_welch[k]

\* a returned Welch entry that keeps the bin at f_max itself and drops a bin
\* above it
C21_Witness ==
    /\ HrvReturned
    /\ "welch" \in pxx
    /\ \E k \in DOMAIN f_welch : f_welch[k] = f_max
    /\ \E k \in DOMAIN f_welch : RLt(f_max, f_welch[k])
    /\ Len(pxx_welch_kept) < Len(pxx_welch)

(***************************************************************************)
(* A claim about the loop of pxx_lomb, checked under SpecLomb.             *)
(***************************************************************************)
\* C27 as stated: the window loop ends for every non-empty input: t_win is
\* not 0, so that floor(trr[-1] / t_win) is a number, no more than that
\* many windows are accumulated before the break, and when a window fits
\* their number is floor((trr[-1] - t_win) / t_win) + 1; also when t_win is
\* omitted on a recording shorter than one second.
C27_LoopBreaksWithinFloorOfEndOverWindow ==
    InLomb =>
        /\ t_win # Zero
        /\ lomb_i <= RFloor(RDiv(SignalEnd, t_win))
        /\ (pc \in {"average", "done"} /\ lomb_i >= 1) =>
               lomb_i = RFloor(RDiv(RSub(SignalEnd, t_win), t_win)) + 1

(***************************************************************************)
(* A claim about sec_to_time, checked under SpecTime.                      *)
(***************************************************************************)
TimeReturned == fn = "sec_to_time" /\ pc \in {"done", "shown"}

\* the position of the first '+' in a string, 0 if there is none
PlusAt(chars) ==
    IF \E n \in DOMAIN chars : chars[n] = "+"
    THEN CHOOSE n \in DOMAIN chars :
             chars[n] = "+" /\ \A l \in 1..(n - 1) : chars[l] # "+"
    ELSE 0

\* C23: sec_to_time raises ValueError for every negative sec; for sec >= 0
\* it returns 0 <= h < 24, 0 <= m < 60, 0 <= s < 60, 0 <= ms < 1000 with
\* d * 86400 + h * 3600 + m * 60 + s = floor(sec), and the string form
\* starts with the days and a '+' exactly when d is not 0.
C23_FieldsInRangeAndSumToFloor ==
    TimeReturned =>
        IF RLt(sec, Zero) THEN raised = "ValueError" /\ ret_time = <<>>
        ELSE /\ raised = NoExc
             /\ LET t == ret_time[1]
                IN  /\ t.h \in 0..23
                    /\ t.m \in 0..59
                    /\ t.s \in 0..59
                    /\ t.ms \in 0..999
                    /\ t.d * 86400 + t.h * 3600 + t.m * 60 + t.s =
                           RFloor(sec)
                    /\ pc = "shown" =>
                           IF t.d # 0
                           THEN /\ PlusAt(ret_str) > 1
                                /\ SubSeq(ret_str, 1, PlusAt(ret_str) - 1) =
                                       decimal(t.d)
                           ELSE PlusAt(ret_str) = 0

\* a time on day 1 with a fraction of a second, shown with its day prefix
C23_Witness ==
    /\ fn = "sec_to_time"
    /\ pc = "shown"
    /\ ret_time = <<T(1, 23, 59, 59, 500)>>
    /\ ret_str = <<"1", "+", "2", "3", ":", "5", "9", ":", "5", "9", ".",
                   "5", "0", "0">>

(***************************************************************************)
(* A claim about wfdb_time_to_samples, checked under SpecSamples.          *)
(***************************************************************************)
SamplesCalled == fn = "wfdb_time_to_samples" /\ pc = "done"

\* a piece of the time string, and whether it is 1..hi digits
Piece(from, to) == SubSeq(time, from, to)
IsField(chars, hi) ==
    Len(chars) \in 1..hi /\ \A k \in DOMAIN chars : IsDigit(chars[k])

\* the recognised formats 's<digits>', '<digits>', 'hh:mm:ss' and
\* 'mm:ss[.yyy]', by the places of their separators
IsSample == time # <<>> /\ time[1] = "s" /\ IsField(Tail(time), Len(time))
IsSeconds == IsField(time, Len(time))
IsHMS(c1, c2) ==
    /\ c1 < c2
    /\ time[c1] = ":"
    /\ time[c2] = ":"
    /\ IsField(Piece(1, c1 - 1), 2)
    /\ IsField(Piece(c1 + 1, c2 - 1), 2)
    /\ IsField(Piece(c2 + 1, Len(time)), 2)
IsMS(c1) ==
    /\ time[c1] = ":"
    /\ IsField(Piece(1, c1 - 1), 2)
    /\ IsField(Piece(c1 + 1, Len(time)), 2)
IsMSY(c1, dot) ==
    /\ c1 < dot
    /\ time[c1] = ":"
    /\ time[dot] = "."
    /\ IsField(Piece(1, c1 - 1), 2)
    /\ IsField(Piece(c1 + 1, dot - 1), 2)
    /\ IsField(Piece(dot + 1, Len(time)), 3)

RECURSIVE TenTo(_)
TenTo(n) == IF n = 0 THEN 1 ELSE 10 * TenTo(n - 1)

\* the call returned int(seconds * fs), or raised ValueError because the
\* minutes mm or the seconds ss are above top
SamplesOf(mm, ss, seconds, top) ==
    IF mm <= top /\ ss <= top
    THEN raised = NoExc /\ ret_samples = <<RFloor(RMul(seconds, arg_fs))>>
    ELSE raised = "ValueError" /\ ret_samples = <<>>

\* what the call did on each kind of time string, with minutes and seconds
\* accepted up to top
SamplesAsDocumented(top) ==
    IF time = <<"e">> THEN raised = NoExc /\ ret_samples = <<-1>>
    ELSE IF IsSample
    THEN raised = NoExc /\ ret_samples = <<int_of(Tail(time))>>
    ELSE IF IsSeconds THEN SamplesOf(0, 0, FromInt(int_of(time)), top)
    ELSE IF \E c1, c2 \in DOMAIN time : IsHMS(c1, c2)
    THEN \A c1, c2 \in DOMAIN time :
             IsHMS(c1, c2) =>
                 LET hh == int_of(Piece(1, c1 - 1))
                     mm == int_of(Piece(c1 + 1, c2 - 1))
                     ss == int_of(Piece(c2 + 1, Len(time)))
                 IN  SamplesOf(mm, ss,
                               FromInt(hh * 3600 + mm * 60 + ss), top)
    ELSE IF \E c1 \in DOMAIN time : IsMS(c1)
    THEN \A c1 \in DOMAIN time :
             IsMS(c1) =>
                 LET mm == int_of(Piece(1, c1 - 1))
                     ss == int_of(Piece(c1 + 1, Len(time)))
                 IN  SamplesOf(mm, ss, FromInt(mm * 60 + ss), top)
    ELSE IF \E c1, dot \in DOMAIN time : IsMSY(c1, dot)
    THEN \A c1, dot \in DOMAIN time :
             IsMSY(c1, dot) =>
                 LET mm == int_of(Piece(1, c1 - 1))
                     ss == int_of(Piece(c1 + 1, dot - 1))
                     yyy == Piece(dot + 1, Len(time))
                 IN  SamplesOf(mm, ss,
                               RAdd(FromInt(mm * 60 + ss),
                                    Rat(int_of(yyy), TenTo(Len(yyy)))),
                               top)
    ELSE raised = "ValueError" /\ ret_samples = <<>>

\* C24 as stated: wfdb_time_to_samples raises ValueError for every time
\* string that is in none of the recognised formats or whose minutes or
\* seconds are not in 0..59, and for every other string returns
\* int(seconds * fs), -1 for 'e' and n for 's<n>' whatever fs is.
C24_RejectsMinutesAndSecondsAbove59 ==
    SamplesCalled => SamplesAsDocumented(59)

(***************************************************************************)
(* A claim about conf.get_override, checked under SpecConf.                *)
(***************************************************************************)
\* C26 as stated: get_override returns one value per given parameter, in
\* the order given: the override itself whenever it is not None, also a
\* falsy one such as 0, False or an empty sequence, and the configured
\* value only when the override is None.
C26_OverrideKeptUnlessNone ==
    (fn = "get_override" /\ pc = "done") =>
        /\ Len(retvals) = Len(param_overrides)
        /\ \A j \in DOMAIN param_overrides :
               LET k == param_overrides[j][1]
                   v == param_overrides[j][2]
               IN  retvals[j] = IF v # PyNone THEN v
                                ELSE pyhrv_conf[<<common_prefix, k>>]

(***************************************************************************)
(* A claim about ecgpuwave_wrapper, checked under SpecEcg.                 *)
(***************************************************************************)
\* the tool exited non-zero, wrote unexpected output to stderr or timed out
ToolFailed ==
    \/ tool.outcome \in {"exit 1", "timeout"}
    \/ tool.outcome = "exit 0" /\ tool.stderr \notin {"", Rearranging}

\* C25 as stated: ecgpuwave_wrapper raises ValueError for a path that is
\* not a record, before the tool is started; for a record it returns True
\* only if the tool ran without error, and returns False with a warning and
\* without raising when the tool exits non-zero, writes unexpected stderr
\* output or times out; in each of these outcomes no fort.* file is left.
C25_FalseWithoutRaisingWhenToolFails ==
    (fn = "ecgpuwave_wrapper" /\ pc = "done") =>
        IF ~ ecg_args.is_record
        THEN raised = "ValueError" /\ tool = NotRun /\ ret_ok = <<>>
        ELSE /\ ret_ok = <<TRUE>> => ~ ToolFailed /\ tool.outcome = "exit 0"
             /\ ToolFailed =>
                    raised = NoExc /\ ret_ok = <<FALSE>> /\ warnings = 1
             /\ fort_files = {}

=============================================================================
